---- MODULE Spec2Model ----
(***************************************************************************)
(* DataMimic: the server's CSV parsing, the column profiling of            *)
(* /api/upload, the analyzer of /api/analyze_dataset, the fallback         *)
(* generators (jsGenerate and the controlled fallback of                   *)
(* /api/generate_controlled), the fallback evaluator jsEvaluate, and the   *)
(* request handlers of /api/analyze_dataset, /api/generate and             *)
(* /api/generate_controlled with the in-memory store behind them.          *)
(*                                                                         *)
(* A JavaScript string is a sequence of one-character strings.  The value  *)
(* `undefined` (an array element past the end of a short row) is the       *)
(* sentinel Undefined, which no sequence of characters equals.             *)
(*                                                                         *)
(* A JavaScript number is a fixed-point integer counting 1/Scale units;    *)
(* NaN is a sentinel outside the range of every number the model forms.    *)
(***************************************************************************)
EXTENDS Integers, Sequences, FiniteSets, TLC

----------------------------------------------------------------------------
(* Bounds of the model *)

\* data rows of an uploaded table
MaxRows == 2
\* Math.random() is k / RandDen for k in 0 .. RandDen-1
RandDen == 2
\* requests the server receives
MaxRequests == 2
\* uploads the server receives
MaxDatasets == 1

----------------------------------------------------------------------------
(* Strings *)

Undefined == <<"undefined">>

IsSpace(c) == c \in {" ", "\t", "\n", "\r"}

RECURSIVE TrimStart(_)
TrimStart(s) ==
  IF Len(s) = 0 THEN s
  ELSE IF IsSpace(Head(s)) THEN TrimStart(Tail(s)) ELSE s

RECURSIVE TrimEnd(_)
TrimEnd(s) ==
  IF Len(s) = 0 THEN s
  ELSE IF IsSpace(s[Len(s)]) THEN TrimEnd(SubSeq(s, 1, Len(s) - 1)) ELSE s

\* String.prototype.trim
Trim(s) == TrimEnd(TrimStart(s))

RECURSIVE SplitAcc(_, _, _)
SplitAcc(s, sep, cur) ==
  IF Len(s) = 0 THEN <<cur>>
  ELSE IF Head(s) = sep THEN <<cur>> \o SplitAcc(Tail(s), sep, <<>>)
  ELSE SplitAcc(Tail(s), sep, Append(cur, Head(s)))

\* the pieces of two halves of a string put together: the last piece of the
\* left half and the first of the right half are one piece
MergePieces(l, r) ==
  SubSeq(l, 1, Len(l) - 1) \o <<l[Len(l)] \o r[1]>> \o Tail(r)

RECURSIVE Split(_, _)
\* String.prototype.split on a one-character separator; a long string is
\* split by halves, which keeps the evaluation shallow
Split(s, sep) ==
  IF Len(s) <= 64 THEN SplitAcc(s, sep, <<>>)
  ELSE MergePieces(Split(SubSeq(s, 1, Len(s) \div 2), sep),
                   Split(SubSeq(s, (Len(s) \div 2) + 1, Len(s)), sep))

Chop(p) == IF Len(p) > 0 /\ p[Len(p)] = "\r" THEN SubSeq(p, 1, Len(p) - 1) ELSE p

ChopLines(parts) ==
  [i \in 1..Len(parts) |-> IF i < Len(parts) THEN Chop(parts[i]) ELSE parts[i]]

\* split(/\r?\n/): a "\r" just before a "\n" belongs to the separator
SplitLines(s) == ChopLines(Split(s, "\n"))

RECURSIVE Join(_, _)
\* Array.prototype.join
Join(parts, sep) ==
  IF Len(parts) = 0 THEN <<>>
  ELSE IF Len(parts) = 1 THEN parts[1]
  ELSE IF Len(parts) <= 64 THEN parts[1] \o <<sep>> \o Join(Tail(parts), sep)
  ELSE Join(SubSeq(parts, 1, Len(parts) \div 2), sep) \o <<sep>>
       \o Join(SubSeq(parts, (Len(parts) \div 2) + 1, Len(parts)), sep)

\* (x ?? '')
OrEmpty(x) == IF x = Undefined THEN <<>> ELSE x

\* arr[idx] of a JavaScript array, idx counted from 1 here
At(arr, idx) == IF idx \in 1..Len(arr) THEN arr[idx] ELSE Undefined

\* Array.prototype.indexOf, counted from 1; 0 when absent
IndexOf(arr, x) ==
  IF \E i \in 1..Len(arr) : arr[i] = x
  THEN CHOOSE i \in 1..Len(arr) : arr[i] = x /\ \A j \in 1..(i - 1) : arr[j] # x
  ELSE 0

RECURSIVE Uniq(_)
\* Array.from(new Set(arr)): the distinct elements in order of first occurrence
Uniq(arr) ==
  IF Len(arr) = 0 THEN <<>>
  ELSE LET init == Uniq(SubSeq(arr, 1, Len(arr) - 1))
           last == arr[Len(arr)]
       IN IF \E i \in 1..Len(init) : init[i] = last THEN init ELSE Append(init, last)

Range(arr) == {arr[i] : i \in 1..Len(arr)}

----------------------------------------------------------------------------
(* Numbers *)

\* Math.round(val*1000)/1000 keeps three decimals, Math.round(val*100)/100 two
Milli == 1000
Centi == 100
\* the model's numbers carry one decimal more than that
Scale == 10 * Milli
NaN == 0 - (Scale * Scale)

Digits == <<"0", "1", "2", "3", "4", "5", "6", "7", "8", "9">>
IsDigit(c) == \E i \in 1..10 : Digits[i] = c
DigitVal(c) == (CHOOSE i \in 1..10 : Digits[i] = c) - 1

RECURSIVE DigitsVal(_, _)
\* the value of a run of digits, most significant first
DigitsVal(s, acc) ==
  IF Len(s) = 0 THEN acc ELSE DigitsVal(Tail(s), 10 * acc + DigitVal(Head(s)))

RECURSIVE Pow10(_)
Pow10(n) == IF n = 0 THEN 1 ELSE 10 * Pow10(n - 1)

\* digits after the point that a number of the model carries
FracDigits == CHOOSE d \in 0..9 : Pow10(d) = Scale

Prefix(arr, n) == SubSeq(arr, 1, IF Len(arr) < n THEN Len(arr) ELSE n)

AllDigits(s) == \A i \in 1..Len(s) : IsDigit(s[i])

\* digits [. digits] with a digit somewhere
WellFormed(parts) ==
  /\ Len(parts) <= 2
  /\ \A p \in 1..Len(parts) : AllDigits(parts[p])
  /\ \E p \in 1..Len(parts) : Len(parts[p]) > 0

FracVal(fcut) == DigitsVal(fcut, 0) * Pow10(FracDigits - Len(fcut))

UnsignedVal(parts) ==
  IF ~WellFormed(parts) THEN NaN
  ELSE DigitsVal(parts[1], 0) * Scale
       + (IF Len(parts) > 1 THEN FracVal(Prefix(parts[2], FracDigits)) ELSE 0)

Negate(n) == IF n = NaN THEN NaN ELSE 0 - n

TrimmedVal(t) ==
  IF Len(t) = 0 THEN 0
  ELSE IF Head(t) = "-" THEN Negate(UnsignedVal(Split(Tail(t), ".")))
  ELSE UnsignedVal(Split(IF Head(t) = "+" THEN Tail(t) ELSE t, "."))

\* Number(v) for a string of the form [+-] digits [. digits]; anything else,
\* and undefined, is NaN; the empty (or all-blank) string is 0
Number(v) == IF v = Undefined THEN NaN ELSE TrimmedVal(Trim(v))

IsNaN(n) == n = NaN

\* Number.isInteger
IsInteger(n) == n # NaN /\ n % Scale = 0

\* Math.round: the nearest integer, halves upwards
MathRound(n) == ((n + (Scale \div 2)) \div Scale) * Scale

\* Math.round(val*k)/k for k = 100 or 1000
RoundTo(n, k) ==
  LET unit == Scale \div k IN ((n + (unit \div 2)) \div unit) * unit

RECURSIVE NatToStr(_)
NatToStr(n) ==
  IF n < 10 THEN <<Digits[n + 1]>> ELSE Append(NatToStr(n \div 10), Digits[(n % 10) + 1])

RECURSIVE StripZeros(_)
StripZeros(s) ==
  IF Len(s) > 0 /\ s[Len(s)] = "0" THEN StripZeros(SubSeq(s, 1, Len(s) - 1)) ELSE s

PadZeros(raw) == [i \in 1..(FracDigits - Len(raw)) |-> "0"] \o raw

FracToStr(fr) == IF fr = 0 THEN <<>> ELSE <<".">> \o StripZeros(PadZeros(NatToStr(fr)))

MagToStr(mag) == NatToStr(mag \div Scale) \o FracToStr(mag % Scale)

\* String(n) of a number
NumToStr(n) ==
  IF n = NaN THEN <<"N", "a", "N">>
  ELSE IF n < 0 THEN <<"-">> \o MagToStr(0 - n)
  ELSE MagToStr(n)

SeqMin(nums) == CHOOSE m \in Range(nums) : \A x \in Range(nums) : m <= x
SeqMax(nums) == CHOOSE m \in Range(nums) : \A x \in Range(nums) : m >= x

----------------------------------------------------------------------------
(* CSV parsing *)

\* vals.slice(0, 100): the cells the numeric test looks at
ParseSample == 100

TrimAll(cells) == [i \in 1..Len(cells) |-> Trim(cells[i])]

\* rows.map(r => r[idx])
ColumnCells(rows, idx) == [i \in 1..Len(rows) |-> At(rows[i], idx)]

\* .filter(v => v !== '')
NonEmpty(cells) == SelectSeq(cells, LAMBDA v : v # <<>>)

\* .every(v => !isNaN(Number(v)))
AllNumeric(cells) == \A i \in 1..Len(cells) : ~IsNaN(Number(cells[i]))

ColumnOf(name, vals) ==
  [name |-> name,
   type |-> IF AllNumeric(Prefix(vals, ParseSample)) THEN "numeric" ELSE "categorical",
   values |-> vals]

\* the column object jsParseCSV builds for header position idx
ParseColumn(headers, rows, idx) == ColumnOf(headers[idx], NonEmpty(ColumnCells(rows, idx)))

ParseTable(headers, rows) ==
  [headers |-> headers,
   rows |-> rows,
   columns |-> [idx \in 1..Len(headers) |-> ParseColumn(headers, rows, idx)]]

ParseLines(lines) ==
  ParseTable(TrimAll(Split(lines[1], ",")),
             [i \in 1..(Len(lines) - 1) |-> TrimAll(Split(lines[i + 1], ","))])

jsParseCSV(csv) == ParseLines(SplitLines(Trim(csv)))

UploadLines(csvData, lines) ==
  [fileData |-> csvData,
   rowCount |-> Len(lines) - 1,
   columnCount |-> Len(Split(lines[1], ","))]

\* an upload that does not trim the file before it splits it
UploadRecordUntrimmed(csvData) == UploadLines(csvData, Split(csvData, "\n"))

\* what /api/upload stores of the file (id and uploadedAt are the store's)
UploadRecord(csvData) == UploadLines(csvData, Split(Trim(csvData), "\n"))

\* values.map(v => Number(v)).filter(n => !Number.isNaN(n))
NumsOf(values) ==
  SelectSeq([i \in 1..Len(values) |-> Number(values[i])], LAMBDA n : ~IsNaN(n))

\* columnValues of /api/upload for header position index: a cell the row
\* does not have, and an empty one, is ''
UploadCells(dataRows, index) ==
  [i \in 1..Len(dataRows) |-> Trim(OrEmpty(At(Split(dataRows[i], ","), index)))]

UploadColumn(name, columnValues) ==
  [name |-> name,
   type |-> IF AllNumeric(Prefix(NonEmpty(columnValues), ParseSample))
            THEN "numeric" ELSE "categorical",
   nullCount |-> Len(columnValues) - Len(NonEmpty(columnValues))]

UploadColumnsOf(headers, dataRows) ==
  [index \in 1..Len(headers) |-> UploadColumn(headers[index], UploadCells(dataRows, index))]

UploadProfile(lines) == UploadColumnsOf(TrimAll(Split(lines[1], ",")), Tail(lines))

\* the columns /api/upload stores with the dataset
UploadColumns(csvData) == UploadProfile(Split(Trim(csvData), "\n"))

----------------------------------------------------------------------------
(* The preview of the Upload page *)

\* v && v !== ''
Truthy(v) == v \notin {Undefined, <<>>}

\* the column object Upload.parseCSV builds: the numeric test looks at every
\* value
PreviewColumn(name, columnValues) ==
  [name |-> name,
   type |-> IF AllNumeric(SelectSeq(columnValues, Truthy))
            THEN "numeric" ELSE "categorical",
   nullCount |-> Len(columnValues) - Len(SelectSeq(columnValues, Truthy))]

PreviewRows == 10

PreviewTable(headers, dataRows) ==
  [headers |-> headers,
   rows |-> Prefix(dataRows, PreviewRows),
   columns |-> [index \in 1..Len(headers) |->
                  PreviewColumn(headers[index], ColumnCells(dataRows, index))],
   rowCount |-> Len(dataRows)]

PreviewLines(lines) ==
  PreviewTable(TrimAll(Split(lines[1], ",")),
               [i \in 1..(Len(lines) - 1) |-> TrimAll(Split(lines[i + 1], ","))])

\* Upload.parseCSV
parseCSV(content) == PreviewLines(Split(Trim(content), "\n"))

----------------------------------------------------------------------------
(* The analyzer: /api/analyze_dataset *)

\* vals.slice(0, 200): the cells the analyzer's numeric test looks at
AnalyzeSample == 200
\* the calendar years a column named like a year is clamped to
YearMin == 1900
YearMax == 2025

UpperCase == <<"A", "B", "C", "D", "E", "F", "G", "H", "I", "J", "K", "L", "M",
               "N", "O", "P", "Q", "R", "S", "T", "U", "V", "W", "X", "Y", "Z">>
LowerCase == <<"a", "b", "c", "d", "e", "f", "g", "h", "i", "j", "k", "l", "m",
               "n", "o", "p", "q", "r", "s", "t", "u", "v", "w", "x", "y", "z">>

LowerChar(c) ==
  IF \E i \in 1..26 : UpperCase[i] = c
  THEN LowerCase[CHOOSE i \in 1..26 : UpperCase[i] = c] ELSE c

\* String.prototype.toLowerCase
ToLowerCase(s) == [i \in 1..Len(s) |-> LowerChar(s[i])]

Suffix(s, n) == SubSeq(s, Len(s) - n + 1, Len(s))

StrCode == <<"c", "o", "d", "e">>
StrName == <<"n", "a", "m", "e">>
StrYear == <<"y", "e", "a", "r">>

\* /code$/.test(h): the test without the i flag
EndsInCodeExact(h) == Len(h) >= 4 /\ Suffix(h, 4) = StrCode

\* /code$/i.test(h)
EndsInCode(h) == Len(h) >= 4 /\ ToLowerCase(Suffix(h, 4)) = StrCode

\* s.replace(/code$/, 'name'): the pattern is case-sensitive
ReplaceCode(s) ==
  IF Len(s) >= 4 /\ Suffix(s, 4) = StrCode THEN SubSeq(s, 1, Len(s) - 4) \o StrName ELSE s

\* /year/i.test(name)
TestYear(name) ==
  \E i \in 1..(Len(name) - 3) : ToLowerCase(SubSeq(name, i, i + 3)) = StrYear

MathFloor(n) == (n \div Scale) * Scale
MathCeil(n) == 0 - (((0 - n) \div Scale) * Scale)
MathMax(a, b) == IF a >= b THEN a ELSE b
MathMin(a, b) == IF a <= b THEN a ELSE b

\* nums.length ? nums : [dflt]
OrDefault(nums, dflt) == IF Len(nums) > 0 THEN nums ELSE <<dflt>>

YearSuggestion(nums) ==
  [type |-> "int",
   min |-> MathMax(YearMin * Scale, MathFloor(SeqMin(OrDefault(nums, YearMin * Scale)))),
   max |-> MathMin(YearMax * Scale, MathCeil(SeqMax(OrDefault(nums, YearMax * Scale))))]

RangeSuggestion(min, max) ==
  [type |-> IF IsInteger(min) /\ IsInteger(max) THEN "int" ELSE "float",
   min |-> min, max |-> max]

NumericSuggestion(nums) ==
  RangeSuggestion(SeqMin(OrDefault(nums, 0)), SeqMax(OrDefault(nums, Scale)))

\* the suggestions object of one column; categorical has no min and no max
Suggest(name, vals) ==
  IF TestYear(name) THEN YearSuggestion(NumsOf(vals))
  ELSE IF AllNumeric(Prefix(vals, AnalyzeSample)) THEN NumericSuggestion(NumsOf(vals))
  ELSE [type |-> "categorical"]

Dtype(name, suggestions) ==
  [name |-> name, dtype |-> suggestions.type, suggestions |-> suggestions]

\* the entry of dtypes for header position idx
AnalyzeColumn(headers, rows, idx) ==
  Dtype(headers[idx], Suggest(headers[idx], NonEmpty(ColumnCells(rows, idx))))

\* headers.find(h => h.toLowerCase() === c.toLowerCase().replace(/code$/,'name')):
\* the first such header; Undefined when there is none
FindName(headers, c) ==
  At(headers,
     IF \E i \in 1..Len(headers) : ToLowerCase(headers[i]) = ReplaceCode(ToLowerCase(c))
     THEN CHOOSE i \in 1..Len(headers) :
            /\ ToLowerCase(headers[i]) = ReplaceCode(ToLowerCase(c))
            /\ \A j \in 1..(i - 1) : ToLowerCase(headers[j]) # ReplaceCode(ToLowerCase(c))
     ELSE 0)

RECURSIVE SuggestRelations(_, _)
\* for (const c of codeCols) { ...; if (nameCol) relations.push([c, nameCol]) }
SuggestRelations(headers, codeCols) ==
  IF Len(codeCols) = 0 THEN <<>>
  ELSE (IF FindName(headers, Head(codeCols)) \in {Undefined, <<>>} THEN <<>>
        ELSE <<<<Head(codeCols), FindName(headers, Head(codeCols))>>>>)
       \o SuggestRelations(headers, Tail(codeCols))

AnalyzeTable(headers, rows) ==
  [columns |-> headers,
   dtypes |-> [idx \in 1..Len(headers) |-> AnalyzeColumn(headers, rows, idx)],
   relations |-> SuggestRelations(headers, SelectSeq(headers, EndsInCode))]

AnalyzeLines(lines) ==
  AnalyzeTable(TrimAll(Split(lines[1], ",")),
               [i \in 1..(Len(lines) - 1) |-> TrimAll(Split(lines[i + 1], ","))])

\* what /api/analyze_dataset answers for a stored file
Analyze(csv) == AnalyzeLines(SplitLines(Trim(csv)))

----------------------------------------------------------------------------
(* The fallback generators *)

\* arr[Math.floor(Math.random()*arr.length)] when Math.random() is k/RandDen
Pick(arr, k) == arr[((k * Len(arr)) \div RandDen) + 1]

\* uniq.length ? uniq[Math.floor(Math.random()*uniq.length)] : ''
PickOrEmpty(uniq, k) == IF Len(uniq) > 0 THEN Pick(uniq, k) ELSE <<>>

\* a row object: a function from property names to cells
RowGet(row, h) == IF h \in DOMAIN row THEN row[h] ELSE Undefined
RowPut(row, h, v) == [x \in (DOMAIN row) \cup {h} |-> IF x = h THEN v ELSE row[x]]

LastIndexOf(arr, x) ==
  CHOOSE i \in 1..Len(arr) : arr[i] = x /\ \A j \in (i + 1)..Len(arr) : arr[j] # x

\* for (h...) original[headers[h]] = rows[i]?.[h] ?? '' : a later column of
\* the same name overwrites an earlier one
SeedRow(headers, rows, i) ==
  [name \in Range(headers) |->
     IF i \in 1..Len(rows) THEN OrEmpty(At(rows[i], LastIndexOf(headers, name))) ELSE <<>>]

\* headers.map(h => r[h] ?? '')
RowCells(headers, row) == [h \in 1..Len(headers) |-> OrEmpty(RowGet(row, headers[h]))]

\* a serialization that loses the last row
SerializeShort(headers, outRows) ==
  Join(<<Join(headers, ",")>> \o
       [i \in 1..(Len(outRows) - 1) |-> Join(RowCells(headers, outRows[i]), ",")], "\n")

\* [headers.join(','), ...outRows.map(r => headers.map(...).join(','))].join('\n')
Serialize(headers, outRows) ==
  Join(<<Join(headers, ",")>> \o
       [i \in 1..Len(outRows) |-> Join(RowCells(headers, outRows[i]), ",")], "\n")

RECURSIVE SumSeq(_)
SumSeq(nums) == IF Len(nums) = 0 THEN 0 ELSE Head(nums) + SumSeq(Tail(nums))

RECURSIVE SqrtIn(_, _, _)
\* the integer square root, by bisection of lo..hi
SqrtIn(n, lo, hi) ==
  IF lo >= hi THEN lo
  ELSE IF ((lo + hi + 1) \div 2) * ((lo + hi + 1) \div 2) <= n
  THEN SqrtIn(n, (lo + hi + 1) \div 2, hi)
  ELSE SqrtIn(n, lo, ((lo + hi + 1) \div 2) - 1)

\* (b-mean)*(b-mean), the deviation taken in 1/Milli units
SqDev(b, mean) ==
  ((b - mean) \div (Scale \div Milli)) * ((b - mean) \div (Scale \div Milli))

\* Math.sqrt of the variance; the root is sought below 10, which the
\* deviations of the model's tables are
StdDev(nums, mean) ==
  SqrtIn(SumSeq([i \in 1..Len(nums) |-> SqDev(nums[i], mean)]) \div Len(nums), 0, Scale)
  * (Scale \div Milli)

\* String(Math.round(val*100)/100) for val = mean + std * (Math.random()*2-1)
Perturb(mean, std, k) ==
  NumToStr(RoundTo(mean + ((std * ((2 * k) - RandDen)) \div RandDen), Centi))

PerturbAround(nums, mean, k) == Perturb(mean, StdDev(nums, mean), k)

GenerateNumber(nums, k) ==
  IF Len(nums) > 0 THEN PerturbAround(nums, SumSeq(nums) \div Len(nums), k)
  ELSE Perturb(0, Scale, k)

\* the cell jsGenerate draws for column col when Math.random() is k/RandDen
GenerateCell(col, k) ==
  IF col.type = "numeric" THEN GenerateNumber(NumsOf(col.values), k)
  ELSE PickOrEmpty(Uniq(col.values), k)

RECURSIVE GenerateRow(_, _, _, _)
\* for (const col of columns) row[col.name] = ... ; draw[j] is column j's draw
GenerateRow(columns, draw, j, row) ==
  IF j > Len(columns) THEN row
  ELSE GenerateRow(columns, draw, j + 1,
                   RowPut(row, columns[j].name, GenerateCell(columns[j], draw[j])))

jsGenerate(rows, columns, rowCount, draws) ==
  [i \in 1..rowCount |-> GenerateRow(columns, draws[i], 1, <<>>)]

\* columns.filter(c => c.type === 'numeric').slice(0, 2).map(c => c.name)
NamesOf(columns) == [i \in 1..Len(columns) |-> columns[i].name]

\* [[1, r], [r, 1]] with r in hundredths
Corr(r) ==
  <<<<Scale, (r * Scale) \div Centi>>, <<(r * Scale) \div Centi, Scale>>>>

\* jsEvaluate ignores the synthetic rows
jsEvaluate(columns, synth) ==
  [privacyScore |-> 95,
   utilityScore |-> 92,
   ksTestScore |-> (2 * Scale) \div Centi,
   correlationDistance |-> (5 * Scale) \div Centi,
   distributionData |-> <<>>,
   correlationData |->
     [originalCorr |-> Corr(70),
      syntheticCorr |-> Corr(68),
      columnNames |->
        NamesOf(Prefix(SelectSeq(columns, LAMBDA c : c.type = "numeric"), 2))]]

FallbackResult(parsed, outRows) ==
  [csv |-> Serialize(parsed.headers, outRows),
   evaluation |-> jsEvaluate(parsed.columns, outRows),
   rows |-> outRows]

GenerateFrom(parsed, rowCount, draws) ==
  FallbackResult(parsed, jsGenerate(parsed.rows, parsed.columns, rowCount, draws))

\* the fallback of /api/generate: parse, generate, serialize, evaluate
GenerateFallback(dataset, draws) ==
  GenerateFrom(jsParseCSV(dataset.fileData), dataset.rowCount, draws)

\* new Set((cols_to_synthesize || []).filter(c => headers.includes(c)))
SynthSet(headers, cols) == Uniq(SelectSeq(cols, LAMBDA c : c \in Range(headers)))

ObservedMin(nums) == IF Len(nums) > 0 THEN SeqMin(nums) ELSE 0
ObservedMax(nums) == IF Len(nums) > 0 THEN SeqMax(nums) ELSE Scale

MetaFrom(min, max, user) ==
  [min |-> IF user.min # NaN THEN user.min ELSE min,
   max |-> IF user.max # NaN THEN user.max ELSE max,
   int |-> IsInteger(min) /\ IsInteger(max)]

MetaOfNums(nums, user) == MetaFrom(ObservedMin(nums), ObservedMax(nums), user)

\* numericMeta[col.name] of one column; user is the caller's constraint for
\* that name, a bound of NaN being one that is missing or not a number
MetaOf(col, user) == MetaOfNums(NumsOf(col.values), user)

NoConstraint == [type |-> "none", min |-> NaN, max |-> NaN]

\* (constraints && constraints[name]) || {}
UserConstraint(constraints, name) ==
  IF name \in DOMAIN constraints THEN constraints[name] ELSE NoConstraint

\* numericMeta: the columns are visited in order, so the last column of a
\* name decides the entry of that name
NumericMeta(parsed, synth, constraints) ==
  [name \in Range(synth) |->
     MetaOf(parsed.columns[LastIndexOf(parsed.headers, name)],
            UserConstraint(constraints, name))]

RelationKey(pair) == pair[1] \o <<"|">> \o pair[2]

\* the pairs that get a pool: two elements, both in the synthesize-set
Honored(synth, relations) ==
  SelectSeq(relations,
            LAMBDA pair : Len(pair) = 2 /\ pair[1] \in Range(synth) /\ pair[2] \in Range(synth))

\* the keys of relationPools in insertion order
RelationKeys(honored) == Uniq([i \in 1..Len(honored) |-> RelationKey(honored[i])])

\* const [a,b] = key.split('|')
KeyA(key) == At(Split(key, "|"), 1)
KeyB(key) == At(Split(key, "|"), 2)

\* rows.map(r => [r[headers.indexOf(a)], r[headers.indexOf(b)]])
RelationPool(parsed, pair) ==
  [i \in 1..Len(parsed.rows) |->
     <<At(parsed.rows[i], IndexOf(parsed.headers, pair[1])),
       At(parsed.rows[i], IndexOf(parsed.headers, pair[2]))>>]

\* the pair whose pool is stored under key: the last honored pair with that key
PairOfKey(honored, key) ==
  honored[CHOOSE i \in 1..Len(honored) :
            /\ RelationKey(honored[i]) = key
            /\ \A j \in (i + 1)..Len(honored) : RelationKey(honored[j]) # key]

\* relationPools, as the sequence of its values in key order
RelationPools(parsed, honored, keys) ==
  [j \in 1..Len(keys) |-> RelationPool(parsed, PairOfKey(honored, keys[j]))]

Without(arr, x) == SelectSeq(arr, LAMBDA y : y # x)

\* newRow[a] = pick[0] ?? ''; newRow[b] = pick[1] ?? ''; synthSet.delete(a); synthSet.delete(b)
ApplyPick(st, a, b, pick) ==
  [row |-> RowPut(RowPut(st.row, a, OrEmpty(pick[1])), b, OrEmpty(pick[2])),
   synth |-> Without(Without(st.synth, a), b)]

RECURSIVE ApplyRelations(_, _, _, _, _)
\* for (const key of Object.keys(relationPools)) ...; st is the row under
\* construction and the synthesize-set, draw[j] the draw of key j
ApplyRelations(keys, pools, draw, j, st) ==
  IF j > Len(keys) THEN st
  ELSE IF Len(pools[j]) = 0 THEN ApplyRelations(keys, pools, draw, j + 1, st)
  ELSE ApplyRelations(keys, pools, draw, j + 1,
         ApplyPick(st, KeyA(keys[j]), KeyB(keys[j]), Pick(pools[j], draw[j])))

\* meta.min + Math.random()*(meta.max - meta.min)
Uniform(meta, k) == meta.min + ((k * (meta.max - meta.min)) \div RandDen)

\* String(meta.int ? Math.round(val) : Math.round(val*1000)/1000)
Rounded(meta, val) == NumToStr(IF meta.int THEN MathRound(val) ELSE RoundTo(val, Milli))

\* the cell drawn for a selected column outside every applied relation
SynthCell(colInfo, meta, k) ==
  IF colInfo.type = "numeric" THEN Rounded(meta, Uniform(meta, k))
  ELSE PickOrEmpty(Uniq(colInfo.values), k)

RECURSIVE SynthColumns(_, _, _, _, _, _, _)
\* for (const colName of Array.from(synthSet)) ...; colInfo is the first
\* column of that name; draw[off + j] is the draw of the j-th name
SynthColumns(parsed, numericMeta, synth, draw, off, j, row) ==
  IF j > Len(synth) THEN row
  ELSE SynthColumns(parsed, numericMeta, synth, draw, off, j + 1,
         RowPut(row, synth[j],
                SynthCell(parsed.columns[IndexOf(parsed.headers, synth[j])],
                          numericMeta[synth[j]], draw[off + j])))

RECURSIVE ControlledRows(_, _, _, _, _, _, _, _)
\* the rows from row i on, st being row i after its relations; the
\* synthesize-set is shared by the rows, so a deletion stays
ControlledRowsAfter(parsed, numericMeta, keys, pools, rowCount, draws, i, st) ==
  <<SynthColumns(parsed, numericMeta, st.synth, draws[i], Len(keys), 1, st.row)>>
  \o ControlledRows(parsed, numericMeta, keys, pools, rowCount, draws, i + 1, st.synth)

\* for (let i=0;i<dataset.rowCount;i++) ...
ControlledRows(parsed, numericMeta, keys, pools, rowCount, draws, i, synth) ==
  IF i > rowCount THEN <<>>
  ELSE ControlledRowsAfter(parsed, numericMeta, keys, pools, rowCount, draws, i,
         ApplyRelations(keys, pools, draws[i], 1,
                        [row |-> SeedRow(parsed.headers, parsed.rows, i), synth |-> synth]))

ControlledWithKeys(parsed, rowCount, body, draws, synth, honored, keys) ==
  FallbackResult(parsed,
    ControlledRows(parsed, NumericMeta(parsed, synth, body.constraints), keys,
                   RelationPools(parsed, honored, keys), rowCount, draws, 1, synth))

ControlledWithPairs(parsed, rowCount, body, draws, synth, honored) ==
  ControlledWithKeys(parsed, rowCount, body, draws, synth, honored, RelationKeys(honored))

ControlledWithSet(parsed, rowCount, body, draws, synth) ==
  ControlledWithPairs(parsed, rowCount, body, draws, synth, Honored(synth, body.relations))

ControlledFrom(parsed, rowCount, body, draws) ==
  ControlledWithSet(parsed, rowCount, body, draws, SynthSet(parsed.headers, body.cols))

\* the fallback of /api/generate_controlled
ControlledFallback(dataset, body, draws) ==
  ControlledFrom(jsParseCSV(dataset.fileData), dataset.rowCount, body, draws)

LastResortFrom(parsed, rowCount) ==
  FallbackResult(parsed, [i \in 1..rowCount |-> SeedRow(parsed.headers, parsed.rows, i)])

\* the last resort of the 'close' handler of /api/generate_controlled: the
\* source rows as they are
LastResortFallback(dataset) == LastResortFrom(jsParseCSV(dataset.fileData), dataset.rowCount)

RECURSIVE WithoutAll(_, _)
WithoutAll(arr, xs) ==
  IF Len(xs) = 0 THEN arr ELSE WithoutAll(Without(arr, Head(xs)), Tail(xs))

\* the names the relations take out of the synthesize-set
DrawnJointly(keys) ==
  [j \in 1..(2 * Len(keys)) |->
     IF j <= Len(keys) THEN KeyA(keys[j]) ELSE KeyB(keys[j - Len(keys)])]

SlotsOfKeys(synth, keys) == Len(keys) + Len(WithoutAll(synth, DrawnJointly(keys)))

SlotsOfSet(synth, relations) == SlotsOfKeys(synth, RelationKeys(Honored(synth, relations)))

MetaOfTable(parsed, body) ==
  NumericMeta(parsed, SynthSet(parsed.headers, body.cols), body.constraints)

\* numericMeta as the controlled fallback builds it for a request
ControlledMeta(dataset, body) == MetaOfTable(jsParseCSV(dataset.fileData), body)

\* the Math.random() calls one row of the controlled fallback makes: one for
\* each relation key and one for each name the relations leave in the set
ControlledSlots(dataset, body) ==
  SlotsOfSet(SynthSet(jsParseCSV(dataset.fileData).headers, body.cols), body.relations)

\* the draws of a run: one k per row and call
Draws(rowCount, slots) == [1..rowCount -> [1..slots -> 0..(RandDen - 1)]]

----------------------------------------------------------------------------
(* State *)

VARIABLES
  datasets,     \* InMemoryStorage.datasets
  generations,  \* InMemoryStorage.generations
  evaluations,  \* InMemoryStorage.evaluations
  nextId,       \* the ids InMemoryStorage.id() has handed out
  reqs,         \* the generation requests received, each with its handlers' positions
  serverUp,     \* FALSE once an uncaught exception has ended the process
  input,        \* a generator run on its own: the dataset and the request body
  output        \* ... and what it produced

vars == <<datasets, generations, evaluations, nextId, reqs, serverUp, input, output>>
storeVars == <<datasets, generations, evaluations, nextId>>
serverVars == <<datasets, generations, evaluations, nextId, reqs, serverUp>>
genVars == <<input, output>>

\* syntheticData: null
Null == <<"null">>

NoDataset == [id |-> 0, fileData |-> <<>>, rowCount |-> 0, columnCount |-> 0]
NoCorrelation == [originalCorr |-> <<>>, syntheticCorr |-> <<>>, columnNames |-> <<>>]
NoResult ==
  [csv |-> Null,
   evaluation |-> [privacyScore |-> 0, utilityScore |-> 0,
                   distributionData |-> <<>>, correlationData |-> NoCorrelation]]

----------------------------------------------------------------------------
(* The in-memory store *)

\* InMemoryStorage.getDataset
getDataset(id) ==
  IF \E i \in 1..Len(datasets) : datasets[i].id = id
  THEN datasets[CHOOSE i \in 1..Len(datasets) :
                  datasets[i].id = id /\ \A j \in 1..(i - 1) : datasets[j].id # id]
  ELSE NoDataset

\* InMemoryStorage.createDataset
createDataset(rec) ==
  Append(datasets, [id |-> nextId, fileData |-> rec.fileData,
                    rowCount |-> rec.rowCount, columnCount |-> rec.columnCount])

\* InMemoryStorage.createGeneration, as both handlers call it
createGeneration(datasetId) ==
  Append(generations, [id |-> nextId, datasetId |-> datasetId,
                       status |-> "processing", syntheticData |-> Null])

\* InMemoryStorage.updateGeneration: the record of that id with data merged in
updateGeneration(id, data) ==
  [i \in 1..Len(generations) |->
     IF generations[i].id = id /\ \A j \in 1..(i - 1) : generations[j].id # id
     THEN [generations[i] EXCEPT !.status = data.status,
                                 !.syntheticData =
                                    IF data.syntheticData = Undefined
                                    THEN generations[i].syntheticData
                                    ELSE data.syntheticData]
     ELSE generations[i]]

Completed(csv) == [status |-> "completed", syntheticData |-> csv]
Failed == [status |-> "failed", syntheticData |-> Undefined]

\* InMemoryStorage.createEvaluation
createEvaluation(generationId, evaluation) ==
  Append(evaluations, [id |-> nextId, generationId |-> generationId,
                       privacyScore |-> evaluation.privacyScore,
                       utilityScore |-> evaluation.utilityScore,
                       distributionData |-> evaluation.distributionData,
                       correlationData |-> evaluation.correlationData])

\* InMemoryStorage.getGeneration
getGeneration(id) ==
  generations[CHOOSE i \in 1..Len(generations) :
                generations[i].id = id /\ \A j \in 1..(i - 1) : generations[j].id # id]

----------------------------------------------------------------------------
(* Inputs *)

A == <<"a">>
B == <<"b">>
C == <<"c">>

\* a file: lines of cells, comma-joined, newline-joined, with a final newline
Text(lines) == Join([i \in 1..Len(lines) |-> Join(lines[i], ",")], "\n") \o <<"\n">>

\* constraints: {}
NoConstraints == [name \in {} |-> NoConstraint]

NoBody == [cols |-> <<>>, constraints |-> NoConstraints, relations |-> <<>>]

\* the files uploaded to the server
UploadFiles == {Text(<<<<A>>, <<<<"1">>>>, <<<<"3">>>>>>)}

\* the bodies of the /api/generate_controlled requests the server receives
ServerBodies == {[cols |-> <<A>>, constraints |-> NoConstraints, relations |-> <<>>]}

\* what /api/upload stores of each of these files
UploadRecords == [file \in UploadFiles |-> UploadRecord(file)]

\* what the fallback of /api/generate can produce from each of these files,
\* one result for each way the draws can fall
GenerateResults ==
  [file \in UploadFiles |->
     {GenerateFallback(UploadRecords[file], draws) :
        draws \in Draws(UploadRecords[file].rowCount, UploadRecords[file].columnCount)}]

\* the same for the fallback of /api/generate_controlled and each body
ControlledResults ==
  [file \in UploadFiles |->
     [body \in ServerBodies |->
        {ControlledFallback(UploadRecords[file], body, draws) :
           draws \in Draws(UploadRecords[file].rowCount,
                           ControlledSlots(UploadRecords[file], body))}]]

\* ... and for its last resort, which draws nothing
LastResortResults == [file \in UploadFiles |-> LastResortFallback(UploadRecords[file])]

\* what /api/analyze_dataset answers for each of these files
AnalyzeResults == [file \in UploadFiles |-> Analyze(file)]

NoAnalysis == [columns |-> <<>>, dtypes |-> <<>>, relations |-> <<>>]

\* what the external engine returns when it succeeds
EngineResult ==
  [csv |-> Text(<<<<A>>, <<<<"2">>>>, <<<<"2">>>>>>),
   evaluation |-> [privacyScore |-> 90, utilityScore |-> 90,
                   distributionData |-> <<>>,
                   correlationData |-> [originalCorr |-> <<<<Scale>>>>,
                                        syntheticCorr |-> <<<<Scale>>>>,
                                        columnNames |-> <<A>>]]]

\* how a spawned engine process ends
Fates == {"spawnError", "exitNonZero", "exitNonZeroNoise", "noise",
          "unsuccessful", "success", "hang"}

\* the exit code is not 0
NonZero(fate) == fate \in {"spawnError", "exitNonZero", "exitNonZeroNoise"}
\* JSON.parse of the collected output throws
Unparsable(fate) == fate \in {"exitNonZeroNoise", "noise"}

----------------------------------------------------------------------------
(* The request handlers *)

NewRequest(ep, datasetId, body) ==
  [ep |-> ep, datasetId |-> datasetId, body |-> body,
   pc |-> "lookup", dataset |-> getDataset(datasetId), genId |-> 0,
   fate |-> "none", engine |-> "none", epc |-> "idle", cpc |-> "idle",
   held |-> NoResult, cheld |-> NoResult,
   response |-> "none", runs |-> <<>>, analysis |-> NoAnalysis]

\* res.json / res.status(..).json: the first send answers the request, a
\* later one throws (the headers are sent)
Answered(r) == reqs[r].response # "none"

\* POST /api/upload
Upload(file) ==
  /\ serverUp
  /\ Len(datasets) < MaxDatasets
  /\ datasets' = createDataset(UploadRecords[file])
  /\ nextId' = nextId + 1
  /\ UNCHANGED <<generations, evaluations, reqs, serverUp, input, output>>

\* POST /api/analyze_dataset, POST /api/generate and POST
\* /api/generate_controlled, up to the await of storage.getDataset
Receive(ep, datasetId, body) ==
  /\ serverUp
  /\ Len(reqs) < MaxRequests
  /\ reqs' = Append(reqs, NewRequest(ep, datasetId, body))
  /\ UNCHANGED <<storeVars, serverUp, input, output>>

\* a handler that creates a generation before it looks at the dataset
NotFoundAfterCreate(r) ==
  /\ serverUp
  /\ reqs[r].pc = "lookup"
  /\ reqs[r].dataset.id = 0
  /\ generations' = createGeneration(reqs[r].datasetId)
  /\ nextId' = nextId + 1
  /\ reqs' = [reqs EXCEPT ![r].pc = "done", ![r].response = "notfound"]
  /\ UNCHANGED <<datasets, evaluations, serverUp, input, output>>

\* if (!dataset) return res.status(404)...
NotFound(r) ==
  /\ serverUp
  /\ reqs[r].pc = "lookup"
  /\ reqs[r].dataset.id = 0
  /\ reqs' = [reqs EXCEPT ![r].pc = "done", ![r].response = "notfound"]
  /\ UNCHANGED <<storeVars, serverUp, input, output>>

\* /api/analyze_dataset: the dataset is there; res.json({columns, dtypes, relations})
AnalyzeRespond(r) ==
  /\ serverUp
  /\ reqs[r].pc = "lookup"
  /\ reqs[r].ep = "analyze"
  /\ reqs[r].dataset.id # 0
  /\ reqs' = [reqs EXCEPT ![r].pc = "done", ![r].response = "analysis",
                          ![r].analysis = AnalyzeResults[reqs[r].dataset.fileData]]
  /\ UNCHANGED <<storeVars, serverUp, input, output>>

\* storage.createGeneration({status: 'processing', syntheticData: null, ...})
CreateGeneration(r) ==
  /\ serverUp
  /\ reqs[r].pc = "lookup"
  /\ reqs[r].ep \in {"generate", "controlled"}
  /\ reqs[r].dataset.id # 0
  /\ generations' = createGeneration(reqs[r].datasetId)
  /\ nextId' = nextId + 1
  /\ reqs' = [reqs EXCEPT ![r].pc = "spawn", ![r].genId = nextId]
  /\ UNCHANGED <<datasets, evaluations, serverUp, input, output>>

\* /api/generate: spawn threw for every candidate; the fallback runs in the
\* handler itself, up to the await of updateGeneration
GenerateSpawnThrows(r) ==
  /\ serverUp
  /\ reqs[r].pc = "spawn"
  /\ reqs[r].ep = "generate"
  /\ \E res \in GenerateResults[reqs[r].dataset.fileData] :
       /\ generations' = updateGeneration(reqs[r].genId, Completed(res.csv))
       /\ reqs' = [reqs EXCEPT ![r].pc = "syncEval", ![r].held = res,
                               ![r].fate = "spawnThrows",
                               ![r].runs = Append(@, "generate")]
  /\ UNCHANGED <<datasets, evaluations, nextId, serverUp, input, output>>

\* /api/generate_controlled: spawn threw for every candidate
ControlledSpawnThrows(r) ==
  /\ serverUp
  /\ reqs[r].pc = "spawn"
  /\ reqs[r].ep = "controlled"
  /\ \E res \in ControlledResults[reqs[r].dataset.fileData][reqs[r].body] :
       /\ generations' = updateGeneration(reqs[r].genId, Completed(res.csv))
       /\ reqs' = [reqs EXCEPT ![r].pc = "syncEval", ![r].held = res,
                               ![r].fate = "spawnThrows",
                               ![r].runs = Append(@, "controlled")]
  /\ UNCHANGED <<datasets, evaluations, nextId, serverUp, input, output>>

\* storage.createEvaluation after the handler's own fallback
SyncEvaluate(r) ==
  /\ serverUp
  /\ reqs[r].pc = "syncEval"
  /\ evaluations' = createEvaluation(reqs[r].genId, reqs[r].held.evaluation)
  /\ nextId' = nextId + 1
  /\ reqs' = [reqs EXCEPT ![r].pc = "syncRespond"]
  /\ UNCHANGED <<datasets, generations, serverUp, input, output>>

\* return res.json({ success: true, ... })
SyncRespond(r) ==
  /\ serverUp
  /\ reqs[r].pc = "syncRespond"
  /\ reqs' = [reqs EXCEPT ![r].pc = "done", ![r].response = "success"]
  /\ UNCHANGED <<storeVars, serverUp, input, output>>

\* a candidate was spawned, the input was written and the handler returned
\* with its listeners registered
Spawned(r, fate) ==
  /\ serverUp
  /\ reqs[r].pc = "spawn"
  /\ reqs' = [reqs EXCEPT ![r].pc = "waiting", ![r].fate = fate, ![r].engine = "running"]
  /\ UNCHANGED <<storeVars, serverUp, input, output>>

\* /api/generate: pythonProcess.stdin.write threw
GenerateStdinThrows(r) ==
  /\ serverUp
  /\ reqs[r].pc = "spawn"
  /\ reqs[r].ep = "generate"
  /\ generations' = updateGeneration(reqs[r].genId, Failed)
  /\ reqs' = [reqs EXCEPT ![r].pc = "stdinRespond", ![r].fate = "stdinThrows"]
  /\ UNCHANGED <<datasets, evaluations, nextId, serverUp, input, output>>

\* return res.status(500).json({ error: 'Failed to send input to Python' })
GenerateStdinRespond(r) ==
  /\ serverUp
  /\ reqs[r].pc = "stdinRespond"
  /\ reqs' = [reqs EXCEPT ![r].pc = "done", ![r].response = "error"]
  /\ UNCHANGED <<storeVars, serverUp, input, output>>

\* /api/generate_controlled: the same write is inside the handler's outer try
ControlledStdinThrows(r) ==
  /\ serverUp
  /\ reqs[r].pc = "spawn"
  /\ reqs[r].ep = "controlled"
  /\ reqs' = [reqs EXCEPT ![r].pc = "done", ![r].fate = "stdinThrows", ![r].response = "error"]
  /\ UNCHANGED <<storeVars, serverUp, input, output>>

----------------------------------------------------------------------------
(* The engine's events and their listeners *)

\* an async listener whose send threw outside every try leaves a rejected
\* promise nobody handles: the runtime ends the process or only warns,
\* by its version and flags
Rejected(threw) == IF threw THEN {TRUE, FALSE} ELSE {TRUE}

\* 'error' is emitted first when the spawn failed, 'close' after it
CanEmitError(r) == reqs[r].engine = "running" /\ reqs[r].fate = "spawnError"
CanEmitClose(r) ==
  \/ reqs[r].engine = "errored"
  \/ reqs[r].engine = "running" /\ reqs[r].fate \notin {"spawnError", "hang"}

\* /api/generate, pythonProcess.on('error'): updateGeneration(failed), up to
\* its await
GenerateOnError(r) ==
  /\ serverUp
  /\ reqs[r].ep = "generate"
  /\ CanEmitError(r)
  /\ generations' = updateGeneration(reqs[r].genId, Failed)
  /\ reqs' = [reqs EXCEPT ![r].engine = "errored", ![r].epc = "respond"]
  /\ UNCHANGED <<datasets, evaluations, nextId, serverUp, input, output>>

\* ... return res.status(500).json({ error: 'Python process error' }); when
\* the request is answered already the send throws and the listener rejects
GenerateOnErrorRespond(r) ==
  /\ serverUp
  /\ reqs[r].epc = "respond"
  /\ reqs' = [reqs EXCEPT ![r].epc = "done",
                          ![r].response = IF Answered(r) THEN @ ELSE "error"]
  /\ serverUp' \in Rejected(Answered(r))
  /\ UNCHANGED <<storeVars, input, output>>

\* /api/generate_controlled registers no 'error' listener: the emit throws
\* and nothing catches it
ControlledOnError(r) ==
  /\ serverUp
  /\ reqs[r].ep = "controlled"
  /\ CanEmitError(r)
  /\ serverUp' = FALSE
  /\ reqs' = [reqs EXCEPT ![r].engine = "errored"]
  /\ UNCHANGED <<storeVars, input, output>>

\* the fallback block of a 'close' listener, up to the await of
\* updateGeneration: in the try (next = "fbEval") or in the catch
\* (next = "catchEval") of /api/generate
GenerateCloseFallback(r, next) ==
  \E res \in GenerateResults[reqs[r].dataset.fileData] :
    /\ generations' = updateGeneration(reqs[r].genId, Completed(res.csv))
    /\ reqs' = [reqs EXCEPT ![r].engine = "closed", ![r].cpc = next,
                            ![r].cheld = res, ![r].runs = Append(@, "generate")]

\* /api/generate, pythonProcess.on('close'), up to its first await
GenerateOnClose(r) ==
  /\ serverUp
  /\ reqs[r].ep = "generate"
  /\ CanEmitClose(r)
  /\ reqs[r].cpc = "idle"
  /\ IF NonZero(reqs[r].fate) THEN GenerateCloseFallback(r, "fbEval")
     ELSE IF Unparsable(reqs[r].fate) THEN GenerateCloseFallback(r, "catchEval")
     ELSE IF reqs[r].fate = "unsuccessful"
     THEN /\ generations' = updateGeneration(reqs[r].genId, Failed)
          /\ reqs' = [reqs EXCEPT ![r].engine = "closed", ![r].cpc = "failRespond"]
     ELSE /\ generations' = updateGeneration(reqs[r].genId, Completed(EngineResult.csv))
          /\ reqs' = [reqs EXCEPT ![r].engine = "closed", ![r].cpc = "okEval",
                                  ![r].cheld = EngineResult]
  /\ UNCHANGED <<datasets, evaluations, nextId, serverUp, input, output>>

\* the fallback blocks of the 'close' listener of /api/generate_controlled:
\* the constrained one in the try, the last resort in the catch
ControlledCloseFallback(r) ==
  \E res \in ControlledResults[reqs[r].dataset.fileData][reqs[r].body] :
    /\ generations' = updateGeneration(reqs[r].genId, Completed(res.csv))
    /\ reqs' = [reqs EXCEPT ![r].engine = "closed", ![r].cpc = "fbEval",
                            ![r].cheld = res, ![r].runs = Append(@, "controlled")]

ControlledCloseLastResort(r) ==
  \E res \in {LastResortResults[reqs[r].dataset.fileData]} :
    /\ generations' = updateGeneration(reqs[r].genId, Completed(res.csv))
    /\ reqs' = [reqs EXCEPT ![r].engine = "closed", ![r].cpc = "catchEval",
                            ![r].cheld = res, ![r].runs = Append(@, "lastResort")]

\* /api/generate_controlled, pythonProcess.on('close'), up to its first await:
\* JSON.parse(output || '{}') comes first
ControlledOnClose(r) ==
  /\ serverUp
  /\ reqs[r].ep = "controlled"
  /\ CanEmitClose(r)
  /\ reqs[r].cpc = "idle"
  /\ IF Unparsable(reqs[r].fate) THEN ControlledCloseLastResort(r)
     ELSE IF NonZero(reqs[r].fate) \/ reqs[r].fate = "unsuccessful"
     THEN ControlledCloseFallback(r)
     ELSE /\ generations' = updateGeneration(reqs[r].genId, Completed(EngineResult.csv))
          /\ reqs' = [reqs EXCEPT ![r].engine = "closed", ![r].cpc = "okEval",
                                  ![r].cheld = EngineResult]
  /\ UNCHANGED <<datasets, evaluations, nextId, serverUp, input, output>>

\* storage.createEvaluation in a 'close' listener: after the try's fallback,
\* after the engine's result, after the catch's fallback
CloseEvaluate(r) ==
  /\ serverUp
  /\ reqs[r].cpc \in {"fbEval", "okEval", "catchEval"}
  /\ evaluations' = createEvaluation(reqs[r].genId, reqs[r].cheld.evaluation)
  /\ nextId' = nextId + 1
  /\ reqs' = [reqs EXCEPT ![r].cpc = CASE @ = "fbEval" -> "fbRespond"
                                       [] @ = "okEval" -> "okRespond"
                                       [] @ = "catchEval" -> "catchRespond"]
  /\ UNCHANGED <<datasets, generations, serverUp, input, output>>

\* the send that ends the try of a 'close' listener, the request not being
\* answered yet: success after a fallback or the engine's result, the
\* engine's error after success: false
CloseRespond(r) ==
  /\ serverUp
  /\ reqs[r].cpc \in {"fbRespond", "okRespond", "failRespond"}
  /\ ~Answered(r)
  /\ reqs' = [reqs EXCEPT ![r].cpc = "done", ![r].pc = "done",
                          ![r].response = IF reqs[r].cpc = "failRespond"
                                          THEN "error" ELSE "success"]
  /\ UNCHANGED <<storeVars, serverUp, input, output>>

\* the same send when the 'error' listener has answered already: it throws
\* inside the try of /api/generate's 'close' listener, and the catch runs the
\* fallback again
CloseRespondThrows(r) ==
  /\ serverUp
  /\ reqs[r].ep = "generate"
  /\ reqs[r].cpc \in {"fbRespond", "okRespond", "failRespond"}
  /\ Answered(r)
  /\ GenerateCloseFallback(r, "catchEval")
  /\ UNCHANGED <<datasets, evaluations, nextId, serverUp, input, output>>

\* the send that ends the catch of a 'close' listener; when the request is
\* answered already it throws and the listener rejects
CatchRespond(r) ==
  /\ serverUp
  /\ reqs[r].cpc = "catchRespond"
  /\ reqs' = [reqs EXCEPT ![r].cpc = "done", ![r].pc = "done",
                          ![r].response = IF Answered(r) THEN @ ELSE "success"]
  /\ serverUp' \in Rejected(Answered(r))
  /\ UNCHANGED <<storeVars, input, output>>

----------------------------------------------------------------------------
(* The server *)

Init ==
  /\ datasets = <<>>
  /\ generations = <<>>
  /\ evaluations = <<>>
  /\ nextId = 1
  /\ reqs = <<>>
  /\ serverUp = TRUE
  /\ input = [ep |-> "none", dataset |-> NoDataset, body |-> NoBody]
  /\ output = [path |-> "none", csv |-> Null, evaluation |-> NoResult.evaluation]

\* the ids a request may name: those of the store and one it does not hold
RequestIds == {datasets[i].id : i \in 1..Len(datasets)} \cup {0}

Next ==
  \/ \E file \in UploadFiles : Upload(file)
  \/ \E id \in RequestIds : Receive("analyze", id, NoBody)
  \/ \E id \in RequestIds : Receive("generate", id, NoBody)
  \/ \E id \in RequestIds : \E body \in ServerBodies : Receive("controlled", id, body)
  \/ \E r \in 1..Len(reqs) : NotFound(r)
  \/ \E r \in 1..Len(reqs) : AnalyzeRespond(r)
  \/ \E r \in 1..Len(reqs) : CreateGeneration(r)
  \/ \E r \in 1..Len(reqs) : GenerateSpawnThrows(r)
  \/ \E r \in 1..Len(reqs) : ControlledSpawnThrows(r)
  \/ \E r \in 1..Len(reqs) : SyncEvaluate(r)
  \/ \E r \in 1..Len(reqs) : SyncRespond(r)
  \/ \E r \in 1..Len(reqs) : \E fate \in Fates : Spawned(r, fate)
  \/ \E r \in 1..Len(reqs) : GenerateStdinThrows(r)
  \/ \E r \in 1..Len(reqs) : GenerateStdinRespond(r)
  \/ \E r \in 1..Len(reqs) : ControlledStdinThrows(r)
  \/ \E r \in 1..Len(reqs) : GenerateOnError(r)
  \/ \E r \in 1..Len(reqs) : GenerateOnErrorRespond(r)
  \/ \E r \in 1..Len(reqs) : ControlledOnError(r)
  \/ \E r \in 1..Len(reqs) : GenerateOnClose(r)
  \/ \E r \in 1..Len(reqs) : ControlledOnClose(r)
  \/ \E r \in 1..Len(reqs) : CloseEvaluate(r)
  \/ \E r \in 1..Len(reqs) : CloseRespond(r)
  \/ \E r \in 1..Len(reqs) : CloseRespondThrows(r)
  \/ \E r \in 1..Len(reqs) : CatchRespond(r)

Spec == Init /\ [][Next]_vars

\* the event loop runs every handler and listener that is ready to run
LiveSpec == Init /\ [][Next]_vars /\ WF_vars(Next)

----------------------------------------------------------------------------
(* The fallback generators on their own *)

\* header lines: one column, two columns, one name twice
HeaderLines == {<<A>>, <<A, B>>, <<A, A>>}

\* data lines: a cell to trim, a decimal, an empty cell, a line shorter than
\* the header
RowLines ==
  {<<<<" ", "1">>, <<"x">>, <<"p">>>>,
   <<<<"2", ".", "5">>, <<"y">>, <<"q">>>>,
   <<<<>>, <<"2">>>>,
   <<<<"x">>>>}

GenFiles(headers) ==
  {Text(<<header>> \o rows) :
     header \in headers, rows \in UNION {[1..n -> RowLines] : n \in 0..MaxRows}}

Body(cols, constraints, relations) ==
  [cols |-> cols, constraints |-> constraints, relations |-> relations]

\* the caller's constraints on column a: a type alone, fractional bounds,
\* integer bounds
GenConstraints ==
  {A :> [type |-> "int", min |-> NaN, max |-> NaN],
   A :> [type |-> "float", min |-> (6 * Scale) \div 10, max |-> (8 * Scale) \div 10],
   A :> [type |-> "int", min |-> Scale, max |-> 2 * Scale]}

\* the request bodies: no column, one column with and without constraints,
\* two columns with and without a relation, a relation that is not honored,
\* a relation with a column that is not selected and one that is no pair
GenBodies ==
  {NoBody, Body(<<A>>, NoConstraints, <<>>), Body(<<B>>, NoConstraints, <<>>),
   Body(<<A, B>>, NoConstraints, <<>>), Body(<<A, B>>, NoConstraints, <<<<A, B>>>>),
   Body(<<A>>, NoConstraints, <<<<A, B>>>>),
   Body(<<B>>, NoConstraints, <<<<A, B>>, <<A>>>>),
   Body(<<A, B>>, A :> [type |-> "float", min |-> NaN, max |-> 2 * Scale], <<>>)}
  \cup {Body(<<A>>, cons, <<>>) : cons \in GenConstraints}

\* a request whose relation pairs share a column
ChainedBody == Body(<<A, B, C>>, NoConstraints, <<<<A, B>>, <<B, C>>>>)

GenInput(ep, file, body) ==
  [ep |-> ep, dataset |-> [id |-> 1] @@ UploadRecord(file), body |-> body]

GenInputs ==
  {GenInput("generate", file, NoBody) : file \in GenFiles(HeaderLines)}
  \cup {GenInput("controlled", file, body) : file \in GenFiles(HeaderLines), body \in GenBodies}
  \cup {GenInput("controlled", file, ChainedBody) : file \in GenFiles({<<A, B, C>>})}

GenInit ==
  /\ datasets = <<>>
  /\ generations = <<>>
  /\ evaluations = <<>>
  /\ nextId = 1
  /\ reqs = <<>>
  /\ serverUp = TRUE
  /\ input \in GenInputs
  /\ output = [path |-> "none", csv |-> Null, evaluation |-> NoResult.evaluation]

\* the fallback of /api/generate on the input
RunGenerate ==
  /\ input.ep = "generate"
  /\ output.path = "none"
  /\ \E draws \in Draws(input.dataset.rowCount, input.dataset.columnCount) :
       \E res \in {GenerateFallback(input.dataset, draws)} :
         output' = [path |-> "generate", csv |-> res.csv, evaluation |-> res.evaluation,
                    rows |-> res.rows]
  /\ UNCHANGED <<serverVars, input>>

\* the fallback of /api/generate_controlled on the input
RunControlled ==
  /\ input.ep = "controlled"
  /\ output.path = "none"
  /\ \E draws \in Draws(input.dataset.rowCount, ControlledSlots(input.dataset, input.body)) :
       \E res \in {ControlledFallback(input.dataset, input.body, draws)} :
         output' = [path |-> "controlled", csv |-> res.csv, evaluation |-> res.evaluation,
                    rows |-> res.rows,
                    numericMeta |-> ControlledMeta(input.dataset, input.body)]
  /\ UNCHANGED <<serverVars, input>>

\* the last resort of /api/generate_controlled on the input
RunLastResort ==
  /\ input.ep = "controlled"
  /\ output.path = "none"
  /\ \E res \in {LastResortFallback(input.dataset)} :
       output' = [path |-> "lastResort", csv |-> res.csv, evaluation |-> res.evaluation,
                  rows |-> res.rows]
  /\ UNCHANGED <<serverVars, input>>

GenNext == RunGenerate \/ RunControlled \/ RunLastResort

GenSpec == GenInit /\ [][GenNext]_vars

----------------------------------------------------------------------------
(* The parsers on their own: upload profiling, the analyzer, the fallbacks *)

\* header lines: a year column, a code column with two name columns, a code
\* column twice, a code column without its name column, two plain columns
ProfHeaders ==
  {<<StrYear, A>>,
   <<<<"C", "o", "d", "e">>, StrName, <<"N", "A", "M", "E">>>>,
   <<<<"x", "c", "o", "d", "e">>, <<"x", "c", "o", "d", "e">>, <<"X", "n", "a", "m", "e">>>>,
   <<<<"Y", "E", "A", "R", "S">>, <<"x", "C", "O", "D", "E">>>>,
   <<A, B>>}

\* data lines: a fractional year, a year after YearMax and a word, a line
\* shorter than the header, an empty cell, three words
ProfRows ==
  {<<<<"1", "9", "5", "0", ".", "5">>, <<"1">>>>,
   <<<<"2", "0", "3", "0">>, <<"x">>>>,
   <<<<"1", "8", "9", "9">>>>,
   <<<<>>, <<"2">>>>,
   <<<<"x">>, <<"y">>, <<"z">>>>}

ProfFiles ==
  {Text(<<header>> \o rows) :
     header \in ProfHeaders, rows \in UNION {[1..n -> ProfRows] : n \in 0..MaxRows}}

\* empty tables: no byte, a line end, blanks
EmptyFiles == {<<>>, <<"\n">>, <<" ", "\n", " ">>}

\* the files the fallbacks are run on here: the empty tables and tables of
\* two columns with lines shorter than the header
ShortRows == {<<<<"1">>, <<"2">>>>, <<<<"3">>>>}

FallbackFiles ==
  EmptyFiles
  \cup {Text(<<<<A, B>>>> \o rows) : rows \in UNION {[1..n -> ShortRows] : n \in 1..MaxRows}}

\* one column of n numbers and then a word
LongFile(n) == Text(<<<<A>>>> \o [i \in 1..n |-> <<<<"1">>>>] \o <<<<<<"x">>>>>>)

\* the word comes right after the values the parsers sample
LongFiles == {LongFile(ParseSample), LongFile(AnalyzeSample)}

ProfInputs ==
  {GenInput(ep, file, NoBody) : ep \in {"upload", "analyze"}, file \in ProfFiles \cup FallbackFiles}
  \cup {GenInput("profile", file, NoBody) : file \in ProfFiles \cup FallbackFiles \cup LongFiles}
  \cup {GenInput("generate", file, NoBody) : file \in FallbackFiles}
  \cup {GenInput("controlled", file, body) :
          file \in FallbackFiles,
          body \in {NoBody, Body(<<A, B>>, NoConstraints, <<>>), Body(<<<<>>>>, NoConstraints, <<>>)}}

ProfInit ==
  /\ datasets = <<>>
  /\ generations = <<>>
  /\ evaluations = <<>>
  /\ nextId = 1
  /\ reqs = <<>>
  /\ serverUp = TRUE
  /\ input \in ProfInputs
  /\ output = [path |-> "none", csv |-> Null, evaluation |-> NoResult.evaluation]

\* /api/upload on the input's file: what it stores
RunUpload ==
  /\ input.ep = "upload"
  /\ output.path = "none"
  /\ output' = [path |-> "upload",
                record |-> UploadRecord(input.dataset.fileData),
                columns |-> UploadColumns(input.dataset.fileData)]
  /\ UNCHANGED <<serverVars, input>>

\* /api/analyze_dataset on the input's file: what it answers
RunAnalyze ==
  /\ input.ep = "analyze"
  /\ output.path = "none"
  /\ output' = [path |-> "analyze", analysis |-> Analyze(input.dataset.fileData)]
  /\ UNCHANGED <<serverVars, input>>

\* the kinds of a sequence of column objects
TypesOf(columns) == [i \in 1..Len(columns) |-> columns[i].type]

\* the kinds the analyzer's dtypes stand for
KindsOf(dtypes) ==
  [i \in 1..Len(dtypes) |->
     IF dtypes[i].dtype \in {"int", "float"} THEN "numeric" ELSE dtypes[i].dtype]

\* the input's file read by the four parsers: /api/upload,
\* /api/analyze_dataset, jsParseCSV and the preview of the Upload page
RunProfile ==
  /\ input.ep = "profile"
  /\ output.path = "none"
  /\ output' = [path |-> "profile",
                upload |-> TypesOf(UploadColumns(input.dataset.fileData)),
                analyzer |-> KindsOf(Analyze(input.dataset.fileData).dtypes),
                parser |-> TypesOf(jsParseCSV(input.dataset.fileData).columns),
                preview |-> TypesOf(parseCSV(input.dataset.fileData).columns)]
  /\ UNCHANGED <<serverVars, input>>

ProfNext ==
  RunUpload \/ RunAnalyze \/ RunProfile \/ RunGenerate \/ RunControlled \/ RunLastResort

ProfSpec == ProfInit /\ [][ProfNext]_vars

----------------------------------------------------------------------------
(* The evaluator on its own *)

\* data lines of two numeric columns
EvalRows ==
  {<<<<"1">>, <<"2">>>>, <<<<"3">>, <<"2">>>>, <<<<"3">>, <<"4">>>>, <<<<"5">>, <<"1">>>>}

EvalFiles == {Text(<<<<A, B>>>> \o rows) : rows \in [1..MaxRows -> EvalRows]}

\* tables with no, one and three numeric columns
EvalShapes ==
  {Text(<<<<A>>, <<<<"x">>>>>>),
   Text(<<<<A>>, <<<<"1">>>>, <<<<"3">>>>>>),
   Text(<<<<A, B>>, <<<<"1">>, <<"x">>>>>>),
   Text(<<<<A, B, C>>, <<<<"1">>, <<"2">>, <<"3">>>>>>)}

\* the rows of a table as the objects the evaluator is given
RowObjects(parsed) ==
  [i \in 1..Len(parsed.rows) |-> SeedRow(parsed.headers, parsed.rows, i)]

RECURSIVE SetToSeq(_)
SetToSeq(S) ==
  IF S = {} THEN <<>>
  ELSE LET x == CHOOSE x \in S : TRUE IN <<x>> \o SetToSeq(S \ {x})

\* the synthetic tables each original is evaluated against, one after the other
EvalTables == SetToSeq({RowObjects(jsParseCSV(file)) : file \in EvalFiles})

EvalInit ==
  /\ datasets = <<>>
  /\ generations = <<>>
  /\ evaluations = <<>>
  /\ nextId = 1
  /\ reqs = <<>>
  /\ serverUp = TRUE
  /\ input \in {GenInput("evaluate", file, NoBody) : file \in EvalFiles \cup EvalShapes}
  /\ output = [path |-> "none", reports |-> <<>>]

EvaluateNext(columns, synth) ==
  output' = [path |-> "evaluate",
             reports |-> Append(output.reports,
                                [synth |-> synth, report |-> jsEvaluate(columns, synth)])]

\* jsEvaluate(columns, outRows) for the input's table and the next synthetic one
RunEvaluate ==
  /\ input.ep = "evaluate"
  /\ Len(output.reports) < Len(EvalTables)
  /\ EvaluateNext(jsParseCSV(input.dataset.fileData).columns,
                  EvalTables[Len(output.reports) + 1])
  /\ UNCHANGED <<serverVars, input>>

EvalNext == RunEvaluate

EvalSpec == EvalInit /\ [][EvalNext]_vars

----------------------------------------------------------------------------
(* The in-memory store on its own, with the GET routes that read it *)

\* the records of each kind and the clock readings of a run
MaxStored == 2
MaxClock == 1

\* the store's callers: the clock new Date() reads, and for every generation
\* handed out what its handler does next with the id it holds
NoHandlers == [g \in {} |-> "done"]

\* the generation InMemoryStorage.createGeneration pushed last, with its
\* generatedAt: new Date()
WithGeneratedAt(gens, now) ==
  [gens EXCEPT ![Len(gens)] = [generatedAt |-> now] @@ gens[Len(gens)]]

RECURSIVE InsertByGeneratedAt(_, _)
\* g put into a sequence sorted by (b.generatedAt - a.generatedAt), behind
\* the records of the same generatedAt (Array.prototype.sort is stable)
InsertByGeneratedAt(g, sorted) ==
  IF Len(sorted) = 0 THEN <<g>>
  ELSE IF Head(sorted).generatedAt >= g.generatedAt
  THEN <<Head(sorted)>> \o InsertByGeneratedAt(g, Tail(sorted))
  ELSE <<g>> \o sorted

RECURSIVE SortByGeneratedAt(_, _)
\* [...gens].sort((a, b) => b.generatedAt - a.generatedAt)
SortByGeneratedAt(gens, sorted) ==
  IF Len(gens) = 0 THEN sorted
  ELSE SortByGeneratedAt(Tail(gens), InsertByGeneratedAt(Head(gens), sorted))

\* undefined, where a generation or an evaluation is looked up
NoGeneration == [id |-> 0, status |-> "none", syntheticData |-> Null]
NoEvaluation == [id |-> 0, generationId |-> 0]

\* arr[0], none standing for undefined
First(arr, none) == IF Len(arr) = 0 THEN none ELSE arr[1]

\* InMemoryStorage.getGenerationsByDataset
getGenerationsByDataset(datasetId) ==
  SortByGeneratedAt(SelectSeq(generations, LAMBDA g : g.datasetId = datasetId), <<>>)

\* InMemoryStorage.getLatestGeneration
getLatestGeneration == First(SortByGeneratedAt(generations, <<>>), NoGeneration)

\* this.generations.find(g => g.id === id) for the id of a request's path
FindGeneration(id) ==
  First(SelectSeq(generations, LAMBDA g : NatToStr(g.id) = id), NoGeneration)

\* InMemoryStorage.getEvaluationByGeneration
getEvaluationByGeneration(generationId) ==
  First(SelectSeq(evaluations, LAMBDA e : e.generationId = generationId), NoEvaluation)

KeptGenerations(id) == SelectSeq(generations, LAMBDA g : g.datasetId # id)

\* the evaluations InMemoryStorage.deleteDataset keeps: those of a
\* generation that is left
KeptEvaluations(gens) ==
  SelectSeq(evaluations,
            LAMBDA e : \E i \in 1..Len(gens) : gens[i].id = e.generationId)

\* the GET routes below /api/generations, in the order registerRoutes
\* registers them
StrLatest == <<"l", "a", "t", "e", "s", "t">>
StrParam == <<":", "i", "d">>
GenerationRoutes ==
  <<[path |-> StrParam, handler |-> "byId"], [path |-> StrLatest, handler |-> "latest"]>>

\* the router's match of one path segment: a parameter takes any segment
RouteMatches(route, segment) == Head(route.path) = ":" \/ route.path = segment

\* the first registered route that matches handles the request
Dispatch(routes, segment) ==
  routes[CHOOSE i \in 1..Len(routes) :
           /\ RouteMatches(routes[i], segment)
           /\ \A j \in 1..(i - 1) : ~RouteMatches(routes[j], segment)].handler

\* res.json({ generation, evaluation }) or res.status(404)
GenerationResponse(segment, handler, generation) ==
  IF generation.id = 0
  THEN [request |-> "generations", segment |-> segment, handler |-> handler,
        status |-> 404, generation |-> NoGeneration, evaluation |-> NoEvaluation]
  ELSE [request |-> "generations", segment |-> segment, handler |-> handler,
        status |-> 200,
        generation |-> generation,
        evaluation |-> getEvaluationByGeneration(generation.id)]

\* the handler of /api/download_synthetic/:datasetId on gens[0]
DownloadResponse(datasetId, latest) ==
  IF latest.id = 0 \/ latest.syntheticData \in {Null, <<>>}
  THEN [request |-> "download", datasetId |-> datasetId, status |-> 404, body |-> Null]
  ELSE [request |-> "download", datasetId |-> datasetId, status |-> 200,
        body |-> latest.syntheticData]

StoreInit ==
  /\ datasets = <<>>
  /\ generations = <<>>
  /\ evaluations = <<>>
  /\ nextId = 1
  /\ reqs = <<>>
  /\ serverUp = TRUE
  /\ input = [now |-> 0, handlers |-> NoHandlers]
  /\ output = [request |-> "none"]

\* time passes between two calls of new Date()
Tick ==
  /\ input.now < MaxClock
  /\ input' = [input EXCEPT !.now = input.now + 1]
  /\ UNCHANGED <<serverVars, output>>

\* storage.createDataset
StoreCreateDataset ==
  /\ Len(datasets) < MaxStored
  /\ nextId <= 2 * MaxStored
  /\ \E file \in UploadFiles : datasets' = createDataset(UploadRecords[file])
  /\ nextId' = nextId + 1
  /\ UNCHANGED <<generations, evaluations, reqs, serverUp, input, output>>

\* storage.createGeneration for a dataset the handler has found
StoreCreateGeneration(d) ==
  /\ Cardinality(DOMAIN input.handlers) < MaxStored
  /\ generations' = WithGeneratedAt(createGeneration(datasets[d].id), input.now)
  /\ nextId' = nextId + 1
  /\ input' = [input EXCEPT !.handlers = (nextId :> "update") @@ input.handlers]
  /\ UNCHANGED <<datasets, evaluations, reqs, serverUp, output>>

\* storage.updateGeneration by the handler that holds the generation's id
StoreUpdateGeneration(g, data) ==
  /\ input.handlers[g] = "update"
  /\ generations' = updateGeneration(g, data)
  /\ input' = [input EXCEPT !.handlers[g] =
                  IF data.status = "completed" THEN "evaluate" ELSE "done"]
  /\ UNCHANGED <<datasets, evaluations, nextId, reqs, serverUp, output>>

\* storage.createEvaluation by the handler that completed the generation
StoreCreateEvaluation(g) ==
  /\ input.handlers[g] = "evaluate"
  /\ evaluations' = createEvaluation(g, EngineResult.evaluation)
  /\ nextId' = nextId + 1
  /\ input' = [input EXCEPT !.handlers[g] = "done"]
  /\ UNCHANGED <<datasets, generations, reqs, serverUp, output>>

\* InMemoryStorage.deleteDataset
DeleteDataset(id) ==
  /\ datasets' = SelectSeq(datasets, LAMBDA d : d.id # id)
  /\ generations' = KeptGenerations(id)
  /\ evaluations' = KeptEvaluations(KeptGenerations(id))
  /\ output' = [request |-> "delete", id |-> id]
  /\ UNCHANGED <<nextId, reqs, serverUp, input>>

\* GET /api/generations/<segment>, by the route the router picks
GetGenerations(segment) ==
  /\ output' =
       IF Dispatch(GenerationRoutes, segment) = "byId"
       THEN GenerationResponse(segment, "byId", FindGeneration(segment))
       ELSE GenerationResponse(segment, "latest", getLatestGeneration)
  /\ UNCHANGED <<serverVars, input>>

\* GET /api/download_synthetic/:datasetId
DownloadSynthetic(datasetId) ==
  /\ output' = DownloadResponse(datasetId, First(getGenerationsByDataset(datasetId), NoGeneration))
  /\ UNCHANGED <<serverVars, input>>

\* what a handler writes when its generation ends: the engine's table, the
\* fallback's table, or the failure
StoreUpdates ==
  {Completed(EngineResult.csv), Failed}
  \cup {Completed(file) : file \in UploadFiles}

\* the ids the store has handed out
IssuedIds == 1..(nextId - 1)

\* the ids of the datasets in the store
DatasetIds == {datasets[i].id : i \in 1..Len(datasets)}

StoreNext ==
  \/ Tick
  \/ StoreCreateDataset
  \/ \E d \in 1..Len(datasets) : StoreCreateGeneration(d)
  \/ \E g \in DOMAIN input.handlers :
       \E data \in StoreUpdates : StoreUpdateGeneration(g, data)
  \/ \E g \in DOMAIN input.handlers : StoreCreateEvaluation(g)
  \/ \E id \in DatasetIds : DeleteDataset(id)
  \/ \E segment \in {NatToStr(id) : id \in DOMAIN input.handlers} \cup {StrLatest} :
       GetGenerations(segment)
  \/ \E id \in DatasetIds : DownloadSynthetic(id)

StoreSpec == StoreInit /\ [][StoreNext]_vars

----------------------------------------------------------------------------
(* Reading a run of a generator *)

\* the source table as the fallback reads it
Source == jsParseCSV(input.dataset.fileData)

\* the synthesize-set of the request
Selected == SynthSet(Source.headers, input.body.cols)

\* the relation pairs of the request with both columns in the synthesize-set
HonoredPairs == Honored(Selected, input.body.relations)

OutLines == Split(output.csv, "\n")
OutHeader == Split(OutLines[1], ",")
OutRowCount == Len(OutLines) - 1
OutCell(i, h) == At(Split(OutLines[i + 1], ","), h)

\* the source cell at row i, position h; a cell the row does not have is empty
SourceCell(i, h) == IF i \in 1..Len(Source.rows) THEN OrEmpty(At(Source.rows[i], h)) ELSE <<>>

ColumnPositions == 1..Len(Source.headers)
OutRowIndexes == 1..OutRowCount

\* the numbers observed in the column at position h
Observed(h) == NumsOf(NonEmpty(TrimAll([i \in 1..Len(Source.rows) |-> SourceCell(i, h)])))

EffectiveMin(h) ==
  IF UserConstraint(input.body.constraints, Source.headers[h]).min # NaN
  THEN UserConstraint(input.body.constraints, Source.headers[h]).min
  ELSE ObservedMin(Observed(h))

EffectiveMax(h) ==
  IF UserConstraint(input.body.constraints, Source.headers[h]).max # NaN
  THEN UserConstraint(input.body.constraints, Source.headers[h]).max
  ELSE ObservedMax(Observed(h))

EffectiveType(h) ==
  IF UserConstraint(input.body.constraints, Source.headers[h]).type # "none"
  THEN UserConstraint(input.body.constraints, Source.headers[h]).type
  ELSE IF IsInteger(ObservedMin(Observed(h))) /\ IsInteger(ObservedMax(Observed(h)))
  THEN "int" ELSE "float"

InBounds(v, h) ==
  /\ v # NaN
  /\ EffectiveMin(h) <= v
  /\ v <= EffectiveMax(h)
  /\ EffectiveType(h) = "int" => IsInteger(v)

\* C1: in the fallback of /api/generate_controlled every value of a selected
\* numeric column lies within the effective bounds (the caller's, else the
\* observed ones) and is an integer when the effective type (the caller's,
\* else the inferred one) is int
C1_WithinEffectiveBounds ==
  output.path = "controlled" =>
    \A h \in ColumnPositions :
      (Source.headers[h] \in Range(Selected) /\ Source.columns[h].type = "numeric") =>
        \A i \in OutRowIndexes : InBounds(Number(OutCell(i, h)), h)

JointlyObserved(i, a, b) ==
  \E j \in 1..Len(Source.rows) :
    /\ OutCell(i, IndexOf(Source.headers, a)) = SourceCell(j, IndexOf(Source.headers, a))
    /\ OutCell(i, IndexOf(Source.headers, b)) = SourceCell(j, IndexOf(Source.headers, b))

\* C2: in the fallback of /api/generate_controlled, for every honored relation
\* pair (a,b), also of a list whose pairs share a column, the (a,b) cells of
\* every output row are the (a,b) cells of one source row
C2_JointMembership ==
  output.path = "controlled" =>
    \A p \in 1..Len(HonoredPairs) :
      \A i \in OutRowIndexes : JointlyObserved(i, HonoredPairs[p][1], HonoredPairs[p][2])

\* C7: in the fallback of /api/generate_controlled a column outside the
\* synthesize-set has in output row i the trimmed cell the source has at row i
\* in that position, whether or not the header names are unique
C7_PassThroughPositional ==
  output.path = "controlled" =>
    \A h \in ColumnPositions :
      Source.headers[h] \notin Range(Selected) =>
        \A i \in OutRowIndexes : OutCell(i, h) = SourceCell(i, h)

\* C8: every fallback generation, of either endpoint, has as many data rows
\* as the dataset's stored row count, and its header row is the source's
\* header sequence
C8_RowCountAndHeader ==
  output.path # "none" =>
    /\ OutRowCount = input.dataset.rowCount
    /\ OutHeader = Source.headers

\* a generator ran on a table of MaxRows rows and more than one column and
\* produced that many rows
C8_Witness ==
  /\ output.path \in {"generate", "controlled"}
  /\ input.dataset.rowCount = MaxRows
  /\ Len(Source.headers) > 1
  /\ OutRowCount = MaxRows

\* the distinct non-empty values the source has in the column at position h
DistinctNonEmpty(h) == {SourceCell(i, h) : i \in 1..Len(Source.rows)} \ {<<>>}

\* the columns a fallback synthesizes: all of them in /api/generate, the
\* selected ones in /api/generate_controlled
Synthesized(h) ==
  \/ output.path = "generate"
  \/ output.path = "controlled" /\ Source.headers[h] \in Range(Selected)

\* C9: every output cell of a column the fallback treats as categorical and
\* synthesizes is one of the distinct non-empty values of that column of the
\* source
C9_CategoricalDomain ==
  \A h \in ColumnPositions :
    (Synthesized(h) /\ Source.columns[h].type = "categorical") =>
      \A i \in OutRowIndexes : OutCell(i, h) \in DistinctNonEmpty(h)

----------------------------------------------------------------------------
(* Reading the server *)

\* the three ways the engine fails: it cannot be started (spawn throws, or
\* reports the failure through 'error'), it exits non-zero, its output is
\* unparsable
FailureFates == {"spawnThrows", "spawnError", "exitNonZero", "exitNonZeroNoise", "noise"}

Requests == 1..Len(reqs)

EngineFailed(r) == reqs[r].fate \in FailureFates /\ reqs[r].genId # 0

GenerationOf(r) == getGeneration(reqs[r].genId)

EvaluationsOf(id) == {i \in 1..Len(evaluations) : evaluations[i].generationId = id}

\* the tables the constrained procedure can produce for request r
ControlledTables(r) ==
  {res.csv : res \in ControlledResults[reqs[r].dataset.fileData][reqs[r].body]}

\* C3: whichever way the engine of a /api/generate_controlled request fails,
\* the table stored is one the constrained procedure produces from the
\* request: never a copy of the source's selected columns
C3_SameConstrainedProcedure ==
  \A r \in Requests :
    (reqs[r].ep = "controlled" /\ EngineFailed(r) /\ GenerationOf(r).status = "completed") =>
      GenerationOf(r).syntheticData \in ControlledTables(r)

\* C4: on both endpoints a failure of the engine never leaves the generation
\* failed or the caller with an error response, and a request that is over
\* has a completed generation with data, an evaluation and a success response
C4_FailureRecovers ==
  \A r \in Requests :
    EngineFailed(r) =>
      /\ GenerationOf(r).status # "failed"
      /\ reqs[r].response # "error"
      /\ reqs[r].pc = "done" =>
           /\ GenerationOf(r).status = "completed"
           /\ GenerationOf(r).syntheticData # Null
           /\ EvaluationsOf(reqs[r].genId) # {}
           /\ reqs[r].response = "success"

\* C5: for a request whose engine failed the fallback runs at most once: the
\* rows are generated and stored as completed once, and one evaluation is
\* created
C5_FallbackAtMostOnce ==
  \A r \in Requests :
    EngineFailed(r) =>
      /\ Len(reqs[r].runs) <= 1
      /\ Cardinality(EvaluationsOf(reqs[r].genId)) <= 1

\* request r has been received and its engine is running
Running(r) == IF r \in Requests THEN reqs[r].engine = "running" ELSE FALSE

\* the request has an answer and the generation it created has left
\* 'processing'
Settled(r) ==
  IF r \in Requests /\ Answered(r) /\ reqs[r].genId # 0
  THEN GenerationOf(r).status # "processing" ELSE FALSE

\* C6: a request whose engine has been started is eventually answered and its
\* generation eventually leaves 'processing', also when the engine never
\* exits (the process itself staying up)
C6_EventuallySettled ==
  \A r \in 1..MaxRequests :
    Running(r) ~> (~serverUp \/ Settled(r))

\* generation i is completed and has its evaluation
Produced(i) == generations[i].status = "completed" /\ EvaluationsOf(generations[i].id) # {}

\* C10: once a generation is completed and evaluated no step changes its
\* status or synthetic data or gives it another evaluation
C10_ProducedIsImmutable ==
  [][\A i \in 1..Len(generations) :
       Produced(i) =>
         /\ generations'[i].status = generations[i].status
         /\ generations'[i].syntheticData = generations[i].syntheticData
         /\ \A j \in 1..Len(evaluations') :
              evaluations'[j].generationId = generations[i].id => j <= Len(evaluations)]_vars

\* the answer of request r is the not-found error
AnsweredNotFound(r) == reqs[r].response = "notfound"

\* nothing was done for request r beyond answering it
NothingStarted(req) ==
  /\ req.response \in {"none", "notfound"}
  /\ req.pc = "done" => req.response = "notfound"
  /\ req.genId = 0
  /\ req.engine = "none"
  /\ req.fate = "none"
  /\ req.runs = <<>>

\* C11: a request of /api/analyze_dataset, /api/generate or
\* /api/generate_controlled whose dataset id resolves to no stored dataset is
\* answered with the not-found error and with nothing else; no generation is
\* created for it and its engine is not started, and the step that answers it
\* leaves datasets, generations and evaluations as they were
C11_NotFoundChangesNothing ==
  [][\A r \in 1..Len(reqs') :
       reqs'[r].dataset.id = 0 =>
         /\ NothingStarted(reqs'[r])
         /\ \A g \in 1..Len(generations') : generations'[g].datasetId # reqs'[r].datasetId
         /\ (r <= Len(reqs) /\ reqs[r].response # reqs'[r].response) =>
              /\ datasets' = datasets
              /\ generations' = generations
              /\ evaluations' = evaluations]_vars

\* with a dataset stored, a request of /api/analyze_dataset and one of
\* /api/generate_controlled have both been answered not-found
C11_Witness ==
  /\ Len(datasets) > 0
  /\ \E r \in Requests : reqs[r].ep = "analyze" /\ AnsweredNotFound(r)
  /\ \E r \in Requests : reqs[r].ep = "controlled" /\ AnsweredNotFound(r)

----------------------------------------------------------------------------
(* Reading a run of the controlled fallback *)

\* the request with every header selected
AllSelected == [input.body EXCEPT !.cols = Source.headers]

\* the tables the controlled fallback produces from a body, one for each way
\* the draws can fall
TablesOf(body) ==
  {ControlledFallback(input.dataset, body, draws).csv :
     draws \in Draws(input.dataset.rowCount, ControlledSlots(input.dataset, body))}

\* C12: a run of the controlled fallback whose request selects no column
\* (cols_to_synthesize absent or empty) synthesizes every column: its table
\* is one the fallback produces when every header is selected
C12_DefaultsToAllColumns ==
  (output.path = "controlled" /\ input.body.cols = <<>>) =>
    output.csv \in TablesOf(AllSelected)

----------------------------------------------------------------------------
(* Reading a run of a parser *)

GeneratorPaths == {"generate", "controlled", "lastResort"}

\* the cells of the column at position h, a cell its row does not have being
\* the empty string
RefCells(h) == [i \in 1..Len(Source.rows) |-> SourceCell(i, h)]

\* ... and those of them that are not empty
RefValues(h) == NonEmpty(RefCells(h))

\* the kind of the column: numeric when every non-empty cell is a number
RefKind(h) == IF AllNumeric(Prefix(RefValues(h), ParseSample)) THEN "numeric" ELSE "categorical"

RefNullCount(h) == Len(RefCells(h)) - Len(RefValues(h))

\* C13: in upload profiling, in the analyzer and in the parser of the
\* fallbacks, an empty cell and a cell missing from a short row are both the
\* empty string: they take no part in the numeric test or in the value pool
\* and they are counted in nullCount, so a column whose other cells are all
\* numbers is numeric
C13_EmptyAndMissingCells ==
  \A h \in ColumnPositions :
    /\ output.path = "upload" =>
         /\ output.columns[h].type = RefKind(h)
         /\ output.columns[h].nullCount = RefNullCount(h)
    /\ (output.path = "analyze" /\ ~TestYear(Source.headers[h])) =>
         (output.analysis.dtypes[h].dtype = "categorical" <=> RefKind(h) = "categorical")
    /\ output.path \in GeneratorPaths =>
         /\ Source.columns[h].type = RefKind(h)
         /\ Source.columns[h].values = RefValues(h)

\* the input file is an empty table
EmptyInput == Trim(input.dataset.fileData) = <<>>

\* one header, the empty string
OneEmptyHeader == <<<<>>>>

\* C14: an empty file is one header, the empty string, and no row for the
\* upload, the analyzer and the fallbacks, and a fallback run on it produces
\* the table with that header and no data row
C14_EmptyTable ==
  EmptyInput =>
    /\ output.path = "upload" =>
         /\ output.record.rowCount = 0
         /\ output.record.columnCount = 1
         /\ NamesOf(output.columns) = OneEmptyHeader
    /\ output.path = "analyze" =>
         /\ output.analysis.columns = OneEmptyHeader
         /\ NamesOf(output.analysis.dtypes) = OneEmptyHeader
         /\ output.analysis.relations = <<>>
    /\ output.path \in GeneratorPaths =>
         /\ Source.headers = OneEmptyHeader
         /\ Source.rows = <<>>
         /\ OutHeader = OneEmptyHeader
         /\ OutRowCount = 0

\* the controlled fallback ran on a file of blanks with its one column, the
\* one named by the empty string, selected
C14_Witness ==
  /\ EmptyInput
  /\ Len(input.dataset.fileData) > 1
  /\ output.path = "controlled"
  /\ input.body.cols = OneEmptyHeader

\* the numbers observed in the column at position h
ObservedNums(h) == NumsOf(RefValues(h))

\* the suggestion the reference derivation gives the column at position h
RefSuggestion(h) ==
  IF TestYear(Source.headers[h])
  THEN [type |-> "int",
        min |-> MathMax(YearMin * Scale, SeqMin(ObservedNums(h))),
        max |-> MathMin(YearMax * Scale, SeqMax(ObservedNums(h)))]
  ELSE IF RefKind(h) = "numeric"
  THEN [type |-> IF IsInteger(SeqMin(ObservedNums(h))) /\ IsInteger(SeqMax(ObservedNums(h)))
                 THEN "int" ELSE "float",
        min |-> SeqMin(ObservedNums(h)),
        max |-> SeqMax(ObservedNums(h))]
  ELSE [type |-> "categorical"]

\* the reference derivation has an answer: the column is categorical, or
\* numbers were observed in it
RefDefined(h) ==
  \/ ~TestYear(Source.headers[h]) /\ RefKind(h) = "categorical"
  \/ Len(ObservedNums(h)) > 0

\* C15: the analyzer answers one suggestion for each header, in header
\* order, and each is the reference one: for a name matching /year/i type
\* int with min = max(1900, observed min) and max = min(2025, observed max);
\* else for a numeric column its observed min and max, type int when both
\* are integers and float otherwise; else categorical without min and max
C15_SuggestionsFollowReference ==
  output.path = "analyze" =>
    /\ NamesOf(output.analysis.dtypes) = Source.headers
    /\ \A h \in ColumnPositions :
         RefDefined(h) => output.analysis.dtypes[h].suggestions = RefSuggestion(h)

\* header c ends in "code", whatever the case of its letters
RefIsCode(c) == Len(c) >= 4 /\ ToLowerCase(c) = SubSeq(ToLowerCase(c), 1, Len(c) - 4) \o StrCode

\* header n is, lower-cased, the lower-cased c with "name" for its "code"
RefMatches(c, n) ==
  RefIsCode(c) /\ ToLowerCase(n) = SubSeq(ToLowerCase(c), 1, Len(c) - 4) \o StrName

\* the positions of the name headers of the header at position i
NamePositions(i) == {j \in ColumnPositions : RefMatches(Source.headers[i], Source.headers[j])}

\* the positions, in order, of the code headers that have a name header
CodePositions ==
  SelectSeq([i \in ColumnPositions |-> i], LAMBDA i : NamePositions(i) # {})

FirstNamePosition(i) == CHOOSE j \in NamePositions(i) : \A k \in NamePositions(i) : j <= k

\* C16 as stated: the relations the analyzer answers are exactly the pairs
\* (c, n) of headers where c ends in "code" in any case and n lower-cased is
\* the lower-cased c with "name" for the trailing "code"
C16_ExactlyTheNamedPairs ==
  output.path = "analyze" =>
    Range(output.analysis.relations) =
      {<<Source.headers[i], Source.headers[j]>> : i \in ColumnPositions, j \in ColumnPositions}
      \cap {pair \in Range(Source.headers) \X Range(Source.headers) : RefMatches(pair[1], pair[2])}

\* C16 as amended: one pair for each header position whose header ends in
\* "code" and has such a name header, in header order, made of that header
\* and the first such name header
C16_FirstNameOfEachCode ==
  output.path = "analyze" =>
    output.analysis.relations =
      [k \in 1..Len(CodePositions) |->
         <<Source.headers[CodePositions[k]], Source.headers[FirstNamePosition(CodePositions[k])]>>]

\* the analyzer answered a pair for a code header that has two name headers
C16_Witness ==
  /\ output.path = "analyze"
  /\ Len(output.analysis.relations) > 0
  /\ \E i \in ColumnPositions : Cardinality(NamePositions(i)) > 1

----------------------------------------------------------------------------
(* Reading a run of the controlled fallback: bounds and skipped relations *)

\* C17: for each selected numeric column the controlled fallback takes each
\* bound on its own: the caller's when it is a number, else the one observed
\* in that column
C17_BoundsChosenSeparately ==
  output.path = "controlled" =>
    \A h \in ColumnPositions :
      (Source.headers[h] \in Range(Selected) /\ RefKind(h) = "numeric") =>
        /\ output.numericMeta[Source.headers[h]].min = EffectiveMin(h)
        /\ output.numericMeta[Source.headers[h]].max = EffectiveMax(h)

\* the pair gets a pool: two elements, both selected
IsHonored(pair) ==
  Len(pair) = 2 /\ pair[1] \in Range(Selected) /\ pair[2] \in Range(Selected)

\* the relation pairs of the request that are skipped
SkippedPairs == SelectSeq(input.body.relations, LAMBDA pair : ~IsHonored(pair))

\* the request without them
WithoutSkipped == [input.body EXCEPT !.relations = SelectSeq(input.body.relations, IsHonored)]

\* C18: a relation pair with a column outside the synthesize-set, or that is
\* no pair of two, changes nothing: the table is one the request without it
\* produces, and a column of the pair outside the synthesize-set has in
\* every row the source's cell of that row
C18_SkippedPairChangesNothing ==
  (output.path = "controlled" /\ SkippedPairs # <<>>) =>
    /\ output.csv \in TablesOf(WithoutSkipped)
    /\ \A p \in 1..Len(SkippedPairs) :
         \A h \in ColumnPositions :
           (Source.headers[h] \in Range(SkippedPairs[p]) /\ Source.headers[h] \notin Range(Selected)) =>
             \A i \in OutRowIndexes : OutCell(i, h) = SourceCell(i, h)

----------------------------------------------------------------------------
(* Reading the evaluator's reports *)

Reports == 1..Len(output.reports)

\* the synthetic table of report k is the original table
Identical(k) == output.reports[k].synth = RowObjects(Source)

\* C19: the report for a synthetic table identical to the original has KS
\* test score 0, correlation distance 0 and the utility score at its
\* maximum, 100
C19_IdenticalTablesScore ==
  output.path = "evaluate" =>
    \A k \in Reports :
      Identical(k) =>
        /\ output.reports[k].report.ksTestScore = 0
        /\ output.reports[k].report.correlationDistance = 0
        /\ output.reports[k].report.utilityScore = 100

\* report j tells of more divergence than report k
MoreDivergent(j, k) ==
  \/ output.reports[j].report.ksTestScore > output.reports[k].report.ksTestScore
  \/ output.reports[j].report.correlationDistance > output.reports[k].report.correlationDistance

\* every synthetic table has been evaluated against the original
AllEvaluated == Len(output.reports) = Len(EvalTables)

\* C20: of two synthetic tables evaluated against the same original, the one
\* with the larger KS score or correlation distance never has the larger
\* utility score, and once every table has been evaluated two of the reports
\* differ in their utility score
C20_UtilityDecreasesAndVaries ==
  output.path = "evaluate" =>
    /\ \A j \in Reports : \A k \in Reports :
         MoreDivergent(j, k) =>
           output.reports[j].report.utilityScore <= output.reports[k].report.utilityScore
    /\ AllEvaluated =>
         \E j \in Reports : \E k \in Reports :
           output.reports[j].report.utilityScore # output.reports[k].report.utilityScore

\* the numeric columns of the evaluated table, in table order
NumericNames ==
  NamesOf(SelectSeq(Source.columns, LAMBDA c : c.type = "numeric"))

\* m has n rows of n entries each
IsSquare(m, n) == Len(m) = n /\ \A i \in 1..Len(m) : Len(m[i]) = n

\* C21: in every evaluation report, correlationData.columnNames is the
\* ordered list of all numeric columns of the table, and originalCorr and
\* syntheticCorr are square matrices with one row and one column per entry
\* of columnNames
C21_CorrelationIndexedByNumericColumns ==
  output.path = "evaluate" =>
    \A k \in Reports :
      /\ output.reports[k].report.correlationData.columnNames = NumericNames
      /\ IsSquare(output.reports[k].report.correlationData.originalCorr,
                  Len(output.reports[k].report.correlationData.columnNames))
      /\ IsSquare(output.reports[k].report.correlationData.syntheticCorr,
                  Len(output.reports[k].report.correlationData.columnNames))

\* a histogram entry of a numeric column whose two bin-count sequences are
\* as long as its bin sequence
ComparableHistogram(d) ==
  /\ \E i \in 1..Len(NumericNames) : NumericNames[i] = d.column
  /\ Len(d.originalDist) = Len(d.bins)
  /\ Len(d.syntheticDist) = Len(d.bins)

\* C22: whenever the table has a numeric column, the report's
\* distributionData holds a histogram entry for a numeric column whose
\* original and synthetic bin counts are as many as its bins
C22_HistogramForNumericColumn ==
  output.path = "evaluate" =>
    \A k \in Reports :
      NumericNames # <<>> =>
        \E i \in 1..Len(output.reports[k].report.distributionData) :
          ComparableHistogram(output.reports[k].report.distributionData[i])

----------------------------------------------------------------------------
(* Reading a synthetic table back *)

\* the synthetic text parsed again
Reparsed == jsParseCSV(output.csv)

\* the cell the generator wrote at row i for the header at position h
WrittenCell(i, h) == OrEmpty(RowGet(output.rows[i], Source.headers[h]))

\* the cell the re-parse has at row i, position h
ReparsedCell(i, h) ==
  IF i \in 1..Len(Reparsed.rows) THEN OrEmpty(At(Reparsed.rows[i], h)) ELSE Undefined

SameTable ==
  /\ Reparsed.headers = Source.headers
  /\ Len(Reparsed.rows) = Len(output.rows)
  /\ \A i \in 1..Len(output.rows) : \A h \in ColumnPositions :
       ReparsedCell(i, h) = WrittenCell(i, h)

\* the kind the generator writes the column at position h with: that of the
\* column object it got from jsParseCSV
SameKinds ==
  /\ Len(Reparsed.columns) = Len(Source.columns)
  /\ \A h \in ColumnPositions :
       h <= Len(Reparsed.columns) => Reparsed.columns[h].type = Source.columns[h].type

\* C23: the text of a fallback-generated table, parsed again, has the
\* table's headers, as many rows and the same cells, and every column has
\* on re-parse the kind the generator wrote it with
C23_RoundTrip ==
  output.path \in GeneratorPaths => SameTable /\ SameKinds

----------------------------------------------------------------------------
(* Reading the store and its GET routes *)

\* the generation is in the store as it is
Stored(generation) == \E i \in 1..Len(generations) : generations[i] = generation

\* C24: GET /api/generations/latest is answered by the latest-generation
\* handler, never as a lookup of the id 'latest': when a generation exists
\* the answer is a stored generation of the greatest generatedAt, with its
\* evaluation
C24_LatestIsRouted ==
  [][GetGenerations(StrLatest) =>
       /\ output'.handler = "latest"
       /\ generations # <<>> =>
            /\ output'.status = 200
            /\ Stored(output'.generation)
            /\ \A i \in 1..Len(generations) :
                 generations[i].generatedAt <= output'.generation.generatedAt
            /\ output'.evaluation = getEvaluationByGeneration(output'.generation.id)]_vars

\* the generations of dataset d that have synthetic data, in the order of
\* their creation
WithSynthetic(d) ==
  SelectSeq(generations,
            LAMBDA g : g.datasetId = d /\ g.syntheticData \notin {Null, <<>>})

\* C25: GET /api/download_synthetic/:datasetId returns the synthetic CSV of
\* the most recently created generation of the dataset that has synthetic
\* data; it succeeds whenever the dataset has a completed generation, also
\* while a newer generation is processing or has failed
C25_DownloadsLatestSynthetic ==
  [][\A d \in DatasetIds :
       (DownloadSynthetic(d) /\ WithSynthetic(d) # <<>>) =>
         /\ output'.status = 200
         /\ output'.body = WithSynthetic(d)[Len(WithSynthetic(d))].syntheticData]_vars

\* the generations of dataset id
GenerationIdsOf(id) ==
  {generations[i].id : i \in {j \in 1..Len(generations) : generations[j].datasetId = id}}

\* the step removes the dataset id, its generations and their evaluations,
\* and nothing else
DeletesExactly(id) ==
  /\ datasets' = SelectSeq(datasets, LAMBDA d : d.id # id)
  /\ generations' = SelectSeq(generations, LAMBDA g : g.datasetId # id)
  /\ evaluations' =
       SelectSeq(evaluations, LAMBDA e : e.generationId \notin GenerationIdsOf(id))

\* every stored evaluation references a stored generation
EvaluationsReferenced ==
  \A i \in 1..Len(evaluations) :
    \E j \in 1..Len(generations) : generations[j].id = evaluations[i].generationId

----------------------------------------------------------------------------
(* The answer of a generation request and the record it leaves *)

\* the handler of request r and the listeners it registered have all run to
\* their end
Finished(r) ==
  /\ reqs[r].genId # 0
  /\ reqs[r].pc = "done"
  /\ reqs[r].epc \in {"idle", "done"}
  /\ reqs[r].cpc \in {"idle", "done"}

\* the answer of request r and the status of its generation agree
Agrees(r) ==
  /\ reqs[r].response \in {"success", "error"}
  /\ reqs[r].response = "success" <=> GenerationOf(r).status = "completed"
  /\ reqs[r].response = "error" <=> GenerationOf(r).status = "failed"

\* no generation marked failed is completed by the step
FailedStaysFailed ==
  \A i \in 1..Len(generations) :
    generations[i].status = "failed" => generations'[i].status # "completed"

\* C26: a generation request that has run to its end has one response, a
\* success iff its generation is completed and an error iff it is failed,
\* and no step rewrites a failed generation to completed (as after the
\* engine's 'error' and then 'close')
C26_ResponseAgreesWithStatus ==
  /\ [](\A r \in Requests : Finished(r) => Agrees(r))
  /\ [][FailedStaysFailed]_vars

\* C28: a generation never has more than one evaluation, and a completed
\* generation whose request has been answered has exactly one
C28_OneEvaluationPerGeneration ==
  \A r \in Requests :
    reqs[r].genId # 0 =>
      /\ Cardinality(EvaluationsOf(reqs[r].genId)) <= 1
      /\ (Answered(r) /\ GenerationOf(r).status = "completed") =>
           Cardinality(EvaluationsOf(reqs[r].genId)) = 1

----------------------------------------------------------------------------
(* The four parsers on one file *)

\* C29: for every table and every column, the upload profiler, the
\* analyzer, the fallback generator's parser and the client preview assign
\* the same kind, also when the first value that is no number comes after
\* the 100th or the 200th non-empty value
C29_ParsersAgreeOnKinds ==
  output.path = "profile" =>
    /\ output.upload = output.parser
    /\ output.upload = output.analyzer
    /\ output.upload = output.preview

----------------------------------------------------------------------------
(* The Upload page: the selected file, its preview and the reads in flight.
   input holds the component's file state, the FileReaders that have not
   yet fired onload and the mutation; output holds previewData, the last
   toast and the location. *)

MaxSelections == 3
MaxFileSize == 10 * 1024 * 1024

endsWith(s, suffix) == Len(s) >= Len(suffix) /\ Suffix(s, Len(suffix)) = suffix

File(name, size, content) == [name |-> name, size |-> size, content |-> content]

\* useState<File | null>(null) and useState<...| null>(null)
NoFile == File(<<>>, 0, <<>>)
NoPreview == [headers |-> <<>>, rows |-> <<>>, columns |-> <<>>, rowCount |-> -1]

CsvName == <<"a", ".", "c", "s", "v">>
OtherCsvName == <<"b", ".", "c", "s", "v">>
TxtName == <<"a", ".", "t", "x", "t">>

PageFiles ==
  { File(CsvName, 1024, Text(<<<<A>>, <<<<"1">>>>>>)),
    File(OtherCsvName, 2048, Text(<<<<<<"b">>>>, <<<<"x">>>>>>)),
    File(TxtName, 1024, Text(<<<<A>>, <<<<"1">>>>>>)),
    File(CsvName, MaxFileSize + 1, Text(<<<<A>>, <<<<"1">>>>>>)) }

PageInit ==
  /\ datasets = <<>>
  /\ generations = <<>>
  /\ evaluations = <<>>
  /\ nextId = 1
  /\ reqs = <<>>
  /\ serverUp = TRUE
  /\ input = [file |-> NoFile, selection |-> 0, picked |-> 0,
              readers |-> <<>>, pending |-> NoFile]
  /\ output = [previewData |-> NoPreview, toast |-> "", location |-> "/upload"]

\* the page is mounted
OnPage == output.location = "/upload"

\* handleFile, called by handleDrop and handleFileInput; the drop zone and
\* the file input are rendered only while no file is selected
handleFile(selectedFile) ==
  /\ OnPage
  /\ input.file = NoFile
  /\ input.picked < MaxSelections
  /\ IF ~endsWith(selectedFile.name, <<".", "c", "s", "v">>)
       THEN /\ output' = [output EXCEPT !.toast = "Invalid file type"]
            /\ input' = [input EXCEPT !.picked = input.picked + 1]
       ELSE IF selectedFile.size > MaxFileSize
       THEN /\ output' = [output EXCEPT !.toast = "File too large"]
            /\ input' = [input EXCEPT !.picked = input.picked + 1]
       ELSE /\ input' = [input EXCEPT
                  !.file = selectedFile,
                  !.selection = input.picked + 1,
                  !.picked = input.picked + 1,
                  !.readers = Append(input.readers,
                                [file |-> selectedFile,
                                 selection |-> input.picked + 1])]
            /\ UNCHANGED output
  /\ UNCHANGED serverVars

\* reader.onload of the i-th read in flight: the content read is parsed and
\* becomes the preview
onload(i) ==
  /\ OnPage
  /\ i \in 1..Len(input.readers)
  /\ output' = [output EXCEPT
        !.previewData = parseCSV(input.readers[i].file.content)]
  /\ input' = [input EXCEPT
        !.readers = SubSeq(input.readers, 1, i - 1)
                      \o SubSeq(input.readers, i + 1, Len(input.readers))]
  /\ UNCHANGED serverVars

\* removeFile, on the X button and on Cancel; both are rendered only while
\* a file is selected
removeFile ==
  /\ OnPage
  /\ input.file # NoFile
  /\ input' = [input EXCEPT !.file = NoFile, !.selection = 0]
  /\ output' = [output EXCEPT !.previewData = NoPreview]
  /\ UNCHANGED serverVars

\* proceedToModels, on the button rendered while a file is selected and the
\* preview is set, disabled while the mutation is pending
proceedToModels ==
  /\ OnPage
  /\ input.file # NoFile
  /\ output.previewData # NoPreview
  /\ input.pending = NoFile
  /\ input' = [input EXCEPT !.pending = input.file]
  /\ UNCHANGED <<serverVars, output>>

\* uploadMutation.onSuccess
UploadSuccess ==
  /\ OnPage
  /\ input.pending # NoFile
  /\ input' = [input EXCEPT !.pending = NoFile]
  /\ output' = [output EXCEPT !.toast = "Upload successful",
                              !.location = "/models"]
  /\ UNCHANGED serverVars

\* uploadMutation.onError
UploadError ==
  /\ OnPage
  /\ input.pending # NoFile
  /\ input' = [input EXCEPT !.pending = NoFile]
  /\ output' = [output EXCEPT !.toast = "Upload failed"]
  /\ UNCHANGED serverVars

PageNext ==
  \/ \E f \in PageFiles : handleFile(f)
  \/ \E i \in 1..MaxSelections : onload(i)
  \/ removeFile
  \/ proceedToModels
  \/ UploadSuccess
  \/ UploadError

PageSpec == PageInit /\ [][PageNext]_vars

\* the preview is set only while a file is selected
PreviewOnlyWithFile ==
  output.previewData # NoPreview => input.file # NoFile

\* the preview is the parse of the selected file
PreviewOfSelectedFile ==
  (output.previewData # NoPreview /\ input.file # NoFile) =>
    output.previewData = parseCSV(input.file.content)

\* the i-th read in flight was started for a selection that is no longer
\* the current one
Stale(i) == input.readers[i].selection # input.selection

\* C30: on the Upload page, over every interleaving of selecting a file,
\* removing it and the completion of reads, the preview is non-null only
\* while a file is selected, it is the parse of the file now selected, and
\* a read completing after its file was removed or replaced leaves the
\* preview as it is
C30_PreviewFollowsSelection ==
  /\ [](OnPage => (PreviewOnlyWithFile /\ PreviewOfSelectedFile))
  /\ [][\A i \in 1..Len(input.readers) :
          (onload(i) /\ Stale(i)) => output'.previewData = output.previewData]_vars

====
